---- MODULE Spec2Model ----
(***************************************************************************)
(* Formula 1 data dashboard: the API client (helper.check_request), the    *)
(* Session assembler (src/src/session_object.py), the dashboard script     *)
(* that loads a Session on a button click (src/dashboard.py), and the      *)
(* qualifying segmenter and fetch loops of src/src/data_processing.py.     *)
(*                                                                         *)
(* Conventions.  A nullable value (Python None, pandas NaN/NaT) is a       *)
(* sequence of length 0 or 1: None is <<>>, a present value v is <<v>>.    *)
(* Durations are integer milliseconds; timestamps are integers, minutes in *)
(* the loader and the qualifying segmenter and, where a duration is added  *)
(* to one (the telemetry windows), the unit of the durations.  A           *)
(* table (DataFrame, JSON array of records) is a sequence of records in    *)
(* row order; an insertion-ordered dict is a sequence of <<key, value>>.   *)
(***************************************************************************)
EXTENDS Integers, Sequences, FiniteSets, TLC

VARIABLES
    weekend_select,       \* dashboard widget state: the weekend picked in the selectbox
    clicked,              \* the session button pressed in the running script run
    selected_weekend,     \* st.session_state.selected_weekend
    selected_session,     \* st.session_state.selected_session
    session_object,       \* st.session_state.session_object
    current_session_key,  \* st.session_state.current_session_key
    message,              \* what the script run showed last
    pc,                   \* the fetch the running script run is blocked in
    self,                 \* the Session under construction
    matching,             \* get_session_laps_data: the resolved roster
    idx,                  \* get_session_laps_data: position in the roster loop
    driver_lap_df,        \* get_session_laps_data: the current driver's lap table
    warnings,             \* drivers a logging.warning reported as incomplete
    call,                 \* the check_request call in progress
    response,             \* the response check_request is looking at
    last,                 \* the check_request call that finished last
    tire,                 \* assign_tire_information_to_lap applied on its own
    quali,                \* data_processing.get_qualifying_results applied on its own
    telemetry,            \* the operations of a constructed Session applied on its own
    fetch,                \* a retry loop of data_processing on its own
    assembly              \* Session(session_key) constructed twice against one stable remote

vars == <<weekend_select, clicked, selected_weekend, selected_session,
          session_object, current_session_key, message, pc, self, matching,
          idx, driver_lap_df, warnings, call, response, last, tire, quali,
          telemetry, fetch, assembly>>

dash_vars == <<weekend_select, clicked, selected_weekend, selected_session,
               session_object, current_session_key>>

ctor_vars == <<self, matching, idx, driver_lap_df, warnings>>

lib_vars == <<tire, quali, telemetry, fetch, assembly>>

(***************************************************************************)
(* Bounds of the model.                                                    *)
(***************************************************************************)
MaxRateLimited == 2   \* 429 responses the remote gives to one fetch
NumSessions == 2      \* sessions of the weekend
MaxRoster == 3        \* records in a roster response
MaxLapNumber == 3     \* lap numbers of a driver
MaxTyreAge == 1       \* tyre age at the start of a stint
MaxStints == 2        \* stints of a driver
MaxSessionLaps == 2   \* laps the laps endpoint returns for a driver of a session
MaxSectorTime == 2    \* first-sector time of a lap in the telemetry windows
MaxTimedLaps == 2     \* lap numbers of a driver in the telemetry windows
MaxQualiLaps == 2     \* laps of the combined table given to the qualifying segmenter

MaxFetchGets == 3      \* GETs of one fetch of data_processing.py

(***************************************************************************)
(* Nullable values and sequence helpers.                                   *)
(***************************************************************************)
None == <<>>

Some(v) == <<v>>

IsNone(x) == x = <<>>

Val(x) == x[1]

Range(s) == {s[i] : i \in 1..Len(s)}

\* The sequences over S of length at most n.
SeqUpTo(S, n) == UNION {[1..k -> S] : k \in 0..n}

\* pandas Series.unique(): the values in order of first appearance.
RECURSIVE Unique(_)
Unique(s) ==
    IF s = <<>> THEN <<>>
    ELSE LET init == Unique(SubSeq(s, 1, Len(s) - 1))
             x == s[Len(s)]
         IN IF x \in Range(init) THEN init ELSE Append(init, x)

\* DataFrame.sort_values(key).reset_index(drop=True): the position of row i
\* among the rows ordered by key (rows of equal key keep their order).
SortRank(keys, i) ==
    Cardinality({j \in 1..Len(keys) :
                    keys[j] < keys[i] \/ (keys[j] = keys[i] /\ j < i)}) + 1

SortedBy(rows, keys) ==
    [p \in 1..Len(rows) |->
        rows[CHOOSE i \in 1..Len(rows) : SortRank(keys, i) = p]]

Max(S) == CHOOSE x \in S : \A y \in S : y <= x

(***************************************************************************)
(* Session.assign_tire_information_to_lap (session_object.py 55-80).       *)
(* A lap row carries lap_number; a stint row carries lap_start, lap_end    *)
(* and the nullable compound, tyre_age_at_start and stint_number.          *)
(***************************************************************************)
\* A merge in the wrong direction (direction="forward"): the first right row
\* whose key is >= the left key.
MergeAsofForward(left_keys, right_keys) ==
    [i \in 1..Len(left_keys) |->
        LET c == {j \in 1..Len(right_keys) : right_keys[j] >= left_keys[i]}
        IN IF c = {} THEN 0 ELSE CHOOSE x \in c : \A y \in c : x <= y]

\* pd.merge_asof(left, right, direction="backward") on sorted keys: for left
\* row i the last right row whose key is <= the left key, 0 when there is none.
MergeAsofBackward(left_keys, right_keys) ==
    [i \in 1..Len(left_keys) |->
        LET c == {j \in 1..Len(right_keys) : right_keys[j] <= left_keys[i]}
        IN IF c = {} THEN 0 ELSE Max(c)]

\* The join without the filter of lines 66-67: a lap past the end of the
\* matched stint keeps that stint's tire data.
MergedTireRowNoEndFilter(lap, stints, j) ==
    LET in_stint == j # 0
        age == IF in_stint THEN stints[j].tyre_age_at_start ELSE None
    IN [compound |-> IF in_stint THEN stints[j].compound ELSE None,
        tyre_age_at_start |-> age,
        stint_number |-> IF in_stint THEN stints[j].stint_number ELSE None,
        Tire_Age |-> IF in_stint /\ ~IsNone(age)
                     THEN Some(lap.lap_number - stints[j].lap_start + Val(age))
                     ELSE None]

\* Row i of `merged` after lines 62-70: the tire columns of lap i.
MergedTireRow(lap, stints, j) ==
    LET in_stint == j # 0 /\ lap.lap_number <= stints[j].lap_end
        age == IF in_stint THEN stints[j].tyre_age_at_start ELSE None
    IN [compound |-> IF in_stint THEN stints[j].compound ELSE None,
        tyre_age_at_start |-> age,
        stint_number |-> IF in_stint THEN stints[j].stint_number ELSE None,
        Tire_Age |-> IF in_stint /\ ~IsNone(age)
                     THEN Some(lap.lap_number - stints[j].lap_start + Val(age))
                     ELSE None]

\* The join returning `merged` in place of driver_lap_df: the stint's own
\* columns, without the renamed Compound and Stint Number.
AssignTireReturnsMerged(lap_df, stints_df) ==
    LET laps == SortedBy(lap_df,
                         [i \in 1..Len(lap_df) |-> lap_df[i].lap_number])
        stints == SortedBy(stints_df,
                           [i \in 1..Len(stints_df) |-> stints_df[i].lap_start])
        match == MergeAsofBackward(
                     [i \in 1..Len(laps) |-> laps[i].lap_number],
                     [j \in 1..Len(stints) |-> stints[j].lap_start])
        merged == [i \in 1..Len(laps) |-> MergedTireRow(laps[i], stints, match[i])]
    IN [df |-> [i \in 1..Len(laps) |-> merged[i] @@ laps[i]],
        incomplete |-> \E i \in 1..Len(laps) :
                          \/ IsNone(merged[i].compound)
                          \/ IsNone(merged[i].tyre_age_at_start)
                          \/ IsNone(merged[i].stint_number)]

\* Lines 56-80.
assign_tire_information_to_lap(lap_df, stints_df) ==
    LET laps == SortedBy(lap_df,
                         [i \in 1..Len(lap_df) |-> lap_df[i].lap_number])
        stints == SortedBy(stints_df,
                           [i \in 1..Len(stints_df) |-> stints_df[i].lap_start])
        match == MergeAsofBackward(
                     [i \in 1..Len(laps) |-> laps[i].lap_number],
                     [j \in 1..Len(stints) |-> stints[j].lap_start])
        merged == [i \in 1..Len(laps) |-> MergedTireRow(laps[i], stints, match[i])]
    IN [df |-> [i \in 1..Len(laps) |->
                  [Compound |-> merged[i].compound,
                   Stint_Number |-> merged[i].stint_number,
                   Tire_Age |-> merged[i].Tire_Age] @@ laps[i]],
        incomplete |-> \E i \in 1..Len(laps) :
                          \/ IsNone(merged[i].compound)
                          \/ IsNone(merged[i].tyre_age_at_start)
                          \/ IsNone(merged[i].stint_number)]

(***************************************************************************)
(* The remote API: what a GET may answer.                                  *)
(***************************************************************************)
RetryDelay == 5

OtherStatuses == {404, 500}

\* The session_type the remote reports for a session.
SessionTypeOf(k) == IF k = 1 THEN "Qualifying" ELSE "Race"

SessionNames == <<"Qualifying", "Race", "Sprint", "Practice 1">>

\* The two cars the roster of a session may name.
DriverNumbers == {1, 44}

DriverAcronym(d) == IF d = 1 THEN "VER" ELSE "HAM"

SessionKeys == 1..NumSessions

Acronyms == {DriverAcronym(d) : d \in DriverNumbers}

\* A URL is <<endpoint, query>>; a query and a params dict are sequences of
\* <<name, value>>.  params=None is None.
Url(endpoint, query) == <<endpoint, query>>

Has(q, name) == \E i \in 1..Len(q) : q[i][1] = name

Param(q, name) == q[CHOOSE i \in 1..Len(q) : q[i][1] = name][2]

\* dict.get(key, default)
Get(rec, key, default) == IF key \in DOMAIN rec THEN rec[key] ELSE default

\* d[k] = v on an insertion-ordered dict.
DictSet(d, k, v) ==
    IF \E i \in 1..Len(d) : d[i][1] = k
    THEN [i \in 1..Len(d) |-> IF d[i][1] = k THEN <<k, v>> ELSE d[i]]
    ELSE Append(d, <<k, v>>)

DictKeys(d) == [i \in 1..Len(d) |-> d[i][1]]

RawLap(d, n) ==
    [driver_number |-> d,
     lap_number |-> n,
     date_start |-> Some(10 * n + d),
     duration_sector_1 |-> IF n = 1 THEN None ELSE Some(30000 - n),
     duration_sector_2 |-> Some(30000 + d),
     duration_sector_3 |-> Some(30000),
     lap_duration |-> IF n = 1 THEN None ELSE Some(90500),
     is_pit_out_lap |-> n = 1]

\* The laps endpoint for one driver: no lap, or the laps MaxSessionLaps..1,
\* the latest first.
LapPayloads(d) ==
    {<<>>, [i \in 1..MaxSessionLaps |-> RawLap(d, MaxSessionLaps + 1 - i)]}

RawStint(d, first, end) ==
    [driver_number |-> d,
     stint_number |-> Some(1),
     lap_start |-> first,
     lap_end |-> end,
     compound |-> Some("SOFT"),
     tyre_age_at_start |-> Some(0)]

\* The stints endpoint for one driver: no stint, or one stint from lap 1.
StintPayloads(d) ==
    {<<>>} \cup {<<RawStint(d, 1, e)>> : e \in 1..MaxSessionLaps}

\* Where the laps of a driver start in the telemetry windows: lap n of the
\* first car at 10 n, of the other car 5 later.
LapStart(d, n) == 10 * n + (IF d = 1 THEN 0 ELSE 5)

\* The car_data endpoint for one driver, in time order: around every lap
\* start a sample just before it, one on it, and samples 1, 3, 4 and 5 after.
CarSampleOffsets == <<-1, 0, 1, 3, 4, 5>>

CarSamples(d) ==
    [i \in 1..(Len(CarSampleOffsets) * MaxTimedLaps) |->
        LET n == ((i - 1) \div Len(CarSampleOffsets)) + 1
            k == ((i - 1) % Len(CarSampleOffsets)) + 1
        IN [driver_number |-> d,
            date |-> LapStart(d, n) + CarSampleOffsets[k],
            n_gear |-> k,
            speed |-> 100 + i]]

\* The location endpoint for one driver, in time order.
LocationSampleOffsets == <<-2, 0, 2, 4, 6>>

LocationSamples(d) ==
    [i \in 1..(Len(LocationSampleOffsets) * MaxTimedLaps) |->
        LET n == ((i - 1) \div Len(LocationSampleOffsets)) + 1
            k == ((i - 1) % Len(LocationSampleOffsets)) + 1
        IN [driver_number |-> d,
            date |-> LapStart(d, n) + LocationSampleOffsets[k],
            x |-> i,
            y |-> 2 * i]]

RosterPayloads ==
    SeqUpTo([driver_number : DriverNumbers, name_acronym : Acronyms], MaxRoster)

WeekendSessions ==
    [k \in 1..NumSessions |-> [session_name |-> SessionNames[k], session_key |-> k]]

Payloads(req) ==
    LET ep == req.url[1]
        q == req.url[2]
    IN CASE ep = "meetings" ->
              {<<>>, <<[meeting_official_name |-> "Italian Grand Prix", meeting_key |-> 1]>>}
         [] ep = "sessions" /\ ~Has(q, "session_key") -> {<<>>, WeekendSessions}
         [] ep = "sessions" /\ Has(q, "session_key") ->
              {<<>>, <<[session_key |-> Param(q, "session_key"),
                        session_type |-> SessionTypeOf(Param(q, "session_key")),
                        session_name |-> SessionNames[Param(q, "session_key")],
                        circuit_short_name |-> "Monza"]>>}
         [] ep = "drivers" /\ ~Has(q, "driver_number") -> RosterPayloads
         [] ep = "drivers" /\ Has(q, "driver_number") ->
              {<<>>, <<[driver_number |-> Param(q, "driver_number"),
                        name_acronym |-> DriverAcronym(Param(q, "driver_number")),
                        team_colour |-> "3671C6"]>>}
         [] ep = "laps" -> LapPayloads(Param(q, "driver_number"))
         [] ep = "car_data" -> {<<>>, CarSamples(Param(req.params, "driver_number"))}
         [] ep = "location" -> {<<>>, LocationSamples(Param(q, "driver_number"))}
         [] ep = "stints" -> StintPayloads(Param(q, "driver_number"))

\* The responses the remote may give to a request of a fetch that already
\* received n429 rate-limit responses.
Remote(req, n429) ==
    {[status |-> 200, payload |-> p] : p \in Payloads(req)}
    \cup {[status |-> s, payload |-> <<>>] : s \in OtherStatuses}
    \cup (IF n429 < MaxRateLimited THEN {[status |-> 429, payload |-> <<>>]} ELSE {})

(***************************************************************************)
(* helper.check_request (helper_functions.py 7-31).                        *)
(***************************************************************************)
\* A retry that drops the query parameters.
RetryRequestWithoutParams(url, params) ==
    [delay |-> RetryDelay, url |-> url, params |-> None]

\* Lines 11-16: the request of a retry, after five sleeps of one second.
RetryRequest(url, params) ==
    IF params = None
    THEN [delay |-> RetryDelay, url |-> url, params |-> None]
    ELSE [delay |-> RetryDelay, url |-> url, params |-> params]

StatusError(status) ==
    [type |-> "ValueError",
     text |-> "Unexpected response from OpenF1 API",
     status |-> Some(status)]

NoDataError ==
    [type |-> "ValueError",
     text |-> "No session data found for the given session key.",
     status |-> None]

IndexError ==
    [type |-> "IndexError", text |-> "list index out of range", status |-> None]

\* A retry loop that runs on every status but 200.
CheckRequestRetriesAnyError(resp) ==
    IF resp.status # 200
    THEN [act |-> "retry", exc |-> None, data |-> <<>>]
    ELSE IF resp.payload = <<>>
    THEN [act |-> "raise", exc |-> Some(NoDataError), data |-> <<>>]
    ELSE [act |-> "return", exc |-> None, data |-> resp.payload]

\* No check of the decoded payload: an empty one is returned.
CheckRequestReturnsEmpty(resp) ==
    IF resp.status = 429
    THEN [act |-> "retry", exc |-> None, data |-> <<>>]
    ELSE IF resp.status # 200
    THEN [act |-> "raise", exc |-> Some(StatusError(resp.status)), data |-> <<>>]
    ELSE [act |-> "return", exc |-> None, data |-> resp.payload]

\* Lines 9-31 on one response: retry (429), raise (another status, or an
\* empty payload), or return the decoded payload.
check_request(resp) ==
    IF resp.status = 429
    THEN [act |-> "retry", exc |-> None, data |-> <<>>]
    ELSE IF resp.status # 200
    THEN [act |-> "raise", exc |-> Some(StatusError(resp.status)), data |-> <<>>]
    ELSE IF resp.payload = <<>>
    THEN [act |-> "raise", exc |-> Some(NoDataError), data |-> <<>>]
    ELSE [act |-> "return", exc |-> None, data |-> resp.payload]

\* The record of the call that finishes on the response at hand.
Finished ==
    [stage |-> call.stage, url |-> call.url, params |-> call.params,
     gets |-> call.gets, n429 |-> call.n429,
     outcome |-> check_request(response).act,
     exc |-> check_request(response).exc,
     status |-> response.status, payload |-> response.payload,
     data |-> check_request(response).data]

NoCall ==
    [stage |-> "none", url |-> Url("none", <<>>), params |-> None,
     gets |-> <<>>, n429 |-> 0, outcome |-> "none", exc |-> None,
     status |-> 0, payload |-> <<>>, data |-> <<>>]

\* requests.get(url, params) by a caller, followed by check_request.
StartCall(stage, url, params) ==
    \E r \in Remote([url |-> url, params |-> params], 0) :
        /\ response' = r
        /\ call' = [stage |-> stage, url |-> url, params |-> params,
                    gets |-> <<>>, n429 |-> IF r.status = 429 THEN 1 ELSE 0]
        /\ pc' = stage
        /\ last' = NoCall

NoCallInProgress ==
    [stage |-> "none", url |-> Url("none", <<>>), params |-> None,
     gets |-> <<>>, n429 |-> 0]

NoResponse == [status |-> 0, payload |-> <<>>]

\* The script run ends: nothing is in flight and no button is pressed.
EndRun ==
    /\ pc' = "idle"
    /\ clicked' = None
    /\ call' = NoCallInProgress
    /\ response' = NoResponse

\* check_request has returned data to the caller blocked at `stage`.
Returned(stage) ==
    /\ pc = stage
    /\ last.outcome = "return"

\* Lines 24-31: a 200 response with data; check_request returns the data.
Return ==
    /\ pc # "idle"
    /\ last = NoCall
    /\ check_request(response).act = "return"
    /\ last' = Finished
    /\ UNCHANGED <<dash_vars, message, pc, ctor_vars, call, response, lib_vars>>

\* Lines 9-16: the rate limit was hit; sleep and issue the request again.
Retry ==
    /\ pc # "idle"
    /\ last = NoCall
    /\ check_request(response).act = "retry"
    /\ LET req == RetryRequest(call.url, call.params)
       IN \E r \in Remote(req, call.n429) :
            /\ response' = r
            /\ call' = [call EXCEPT !.gets = Append(@, req),
                                    !.n429 = IF r.status = 429 THEN @ + 1 ELSE @]
    /\ UNCHANGED <<dash_vars, message, pc, ctor_vars, last, lib_vars>>

(***************************************************************************)
(* The Session assembler (session_object.py).                              *)
(***************************************************************************)
NewSession(session_key) ==
    [session_key |-> session_key,
     session_type |-> None,
     session_circuit |-> None,
     session_name |-> None,
     session_lap_data_dict |-> <<>>,
     session_fastest_laps |-> None]

SESSION_URL(k) == Url("sessions", <<<<"session_key", k>>>>)

ALL_DRIVERS_URL(k) == Url("drivers", <<<<"session_key", k>>>>)

DRIVER_LAP_URL(k, d) == Url("laps", <<<<"session_key", k>>, <<"driver_number", d>>>>)

DRIVER_URL(k, d) == Url("drivers", <<<<"driver_number", d>>, <<"session_key", k>>>>)

DRIVER_STINT_URL(k, d) == Url("stints", <<<<"session_key", k>>, <<"driver_number", d>>>>)

\* Line 121: list(all_driver_df["driver_number"].unique())
RosterNumbers(all_drivers) ==
    Unique([i \in 1..Len(all_drivers) |-> all_drivers[i].driver_number])

\* Line 122: list(all_driver_df["name_acronym"].unique())
RosterAcronyms(all_drivers) ==
    Unique([i \in 1..Len(all_drivers) |-> all_drivers[i].name_acronym])

\* Lines 120-125: the dict of number -> acronym, built by position; indexing
\* past the end of the acronym list raises IndexError.
drivers_match_numbers_to_acronyms(all_drivers) ==
    LET driver_numbers == RosterNumbers(all_drivers)
        driver_acronyms == RosterAcronyms(all_drivers)
    IN IF Len(driver_numbers) > Len(driver_acronyms)
       THEN [exc |-> Some(IndexError), driver_matching |-> <<>>]
       ELSE [exc |-> None,
             driver_matching |->
                [i \in 1..Len(driver_numbers) |->
                    <<driver_numbers[i], driver_acronyms[i]>>]]

\* The lap time taken from the API's own lap_duration field.
ActualLapTimeFromLapDuration(lap) == lap.lap_duration

\* pandas addition of nullable columns, in integer milliseconds: NaN if an
\* operand is NaN (round(x, 3) is exact on milliseconds).
actual_lap_time(lap) ==
    IF \/ IsNone(lap.duration_sector_1)
       \/ IsNone(lap.duration_sector_2)
       \/ IsNone(lap.duration_sector_3)
    THEN None
    ELSE Some(Val(lap.duration_sector_1) + Val(lap.duration_sector_2)
              + Val(lap.duration_sector_3))

\* Lines 141-145: the lap table with actual_lap_time and the acronym.
LapTable(driver_lap_data, driver_acronym) ==
    [i \in 1..Len(driver_lap_data) |->
        [actual_lap_time |-> actual_lap_time(driver_lap_data[i]),
         Driver_Acronym |-> driver_acronym] @@ driver_lap_data[i]]

\* Lines 109-113 and 147.
WithDriverColor(df, driver_data) ==
    [i \in 1..Len(df) |->
        [Driver_Color |-> Get(driver_data[1], "driver_color", "Unknown")] @@ df[i]]

\* Lines 160-163 for one driver: the row of the least actual_lap_time (the
\* first such row), if any lap has a time.
FastestLap(df) ==
    LET timed == {i \in 1..Len(df) : ~IsNone(df[i].actual_lap_time)}
    IN IF timed = {} THEN None
       ELSE Some(df[CHOOSE i \in timed :
                      \A j \in timed :
                         \/ Val(df[i].actual_lap_time) < Val(df[j].actual_lap_time)
                         \/ /\ df[i].actual_lap_time = df[j].actual_lap_time
                            /\ i <= j])

\* Lines 156-165.
RECURSIVE get_fastest_session_lap_for_each_driver(_)
get_fastest_session_lap_for_each_driver(lap_data_dict) ==
    IF lap_data_dict = <<>> THEN <<>>
    ELSE LET init == get_fastest_session_lap_for_each_driver(
                        SubSeq(lap_data_dict, 1, Len(lap_data_dict) - 1))
             fastest == FastestLap(lap_data_dict[Len(lap_data_dict)][2])
         IN IF IsNone(fastest) THEN init ELSE Append(init, Val(fastest))

(***************************************************************************)
(* The operations of a constructed Session (session_object.py 82-95 and    *)
(* 167-250).  An operation is a set of results, one for each way the       *)
(* remote may answer its fetches; a result records what the call returned  *)
(* or raised, whether it warned, the requests it made and the window it    *)
(* computed.                                                               *)
(***************************************************************************)
DictHas(d, k) == \E i \in 1..Len(d) : d[i][1] = k

\* d[k]
DictGet(d, k) == d[CHOOSE i \in 1..Len(d) : d[i][1] = k][2]

KeyError == [type |-> "KeyError", text |-> "key not found", status |-> None]

AttributeError ==
    [type |-> "AttributeError",
     text |-> "'NoneType' object has no attribute 'sort_values'",
     status |-> None]

\* requests.get followed by check_request, once the rate limit has passed:
\* what check_request does on the first response that is not a 429.
FetchOutcomes(url, params) ==
    {check_request(r) : r \in Remote([url |-> url, params |-> params], MaxRateLimited)}

CAR_URL == Url("car_data", <<>>)

LOCATION_URL(k, d) == Url("location", <<<<"driver_number", d>>, <<"session_key", k>>>>)

NoWindow == [exc |-> None, start |-> None, duration |-> None, end |-> None]

\* Lines 187-191: the bounds of the lap; NaT where the start or the lap time
\* is missing.
LapWindow(row) ==
    [exc |-> None,
     start |-> row.date_start,
     duration |-> row.actual_lap_time,
     end |-> IF IsNone(row.date_start) \/ IsNone(row.actual_lap_time) THEN None
             ELSE Some(Val(row.date_start) + Val(row.actual_lap_time))]

\* Lines 176-191.  The lap tables carry the index 0..n-1 that
\* assign_tire_information_to_lap gave them (reset_index), and .loc reads by
\* index label: label lap_number is the row at position lap_number + 1.
get_lap_start_and_end_time(s, lap_number, driver_number, fastest_lap) ==
    IF ~fastest_lap
    THEN IF ~DictHas(s.session_lap_data_dict, driver_number)
         THEN [NoWindow EXCEPT !.exc = Some(KeyError)]
         ELSE LET df == DictGet(s.session_lap_data_dict, driver_number)
              IN IF lap_number \in 0..(Len(df) - 1)
                 THEN LapWindow(df[lap_number + 1])
                 ELSE [NoWindow EXCEPT !.exc = Some(KeyError)]
    ELSE LET fl == Val(s.session_fastest_laps)
             rows == {i \in 1..Len(fl) : fl[i].driver_number = driver_number}
         IN IF fl = <<>> THEN [NoWindow EXCEPT !.exc = Some(KeyError)]
            ELSE IF rows = {} THEN [NoWindow EXCEPT !.exc = Some(IndexError)]
            ELSE LapWindow(fl[CHOOSE i \in rows : \A j \in rows : i <= j])

\* Lines 87-90: seconds_from_lap_start = date - start_time.
create_seconds_from_start_col(df, start_time) ==
    [i \in 1..Len(df) |->
        [seconds_from_lap_start |->
            IF IsNone(start_time) THEN None
            ELSE Some(df[i].date - Val(start_time))] @@ df[i]]

\* A mask that leaves out the samples at the very end of the lap.
ApplyTimeMaskOpenEnd(df, start_time, end_time) ==
    IF IsNone(start_time) \/ IsNone(end_time) THEN <<>>
    ELSE SelectSeq(df, LAMBDA r : r.date >= Val(start_time) /\ r.date < Val(end_time))

\* Lines 92-95: the rows with start_time <= date <= end_time, in order; a
\* comparison with NaT is false.
apply_time_mask_to_df(df, start_time, end_time) ==
    IF IsNone(start_time) \/ IsNone(end_time) THEN <<>>
    ELSE SelectSeq(df, LAMBDA r : r.date >= Val(start_time) /\ r.date <= Val(end_time))

NoResult ==
    [op |-> "none", lap_number |-> 0, driver_number |-> 0, fastest_lap |-> FALSE,
     outcome |-> "none", result |-> None, exc |-> None, warned |-> FALSE,
     gets |-> <<>>, window |-> NoWindow]

\* The samples of one fetch cut to the window w (lines 213-216, 233-236).
LapSamples(call0, w, req) ==
    {IF o.act = "raise"
     THEN [call0 EXCEPT !.outcome = "raise", !.exc = o.exc, !.window = w,
                        !.gets = <<req>>]
     ELSE [call0 EXCEPT !.outcome = "return", !.window = w, !.gets = <<req>>,
                        !.result = Some(apply_time_mask_to_df(
                                       create_seconds_from_start_col(o.data, w.start),
                                       w.start, w.end))] :
        o \in FetchOutcomes(req.url, req.params)}


LapNumbersOf(df) == {df[i].lap_number : i \in 1..Len(df)}

\* Lines 193-218.
get_lap_telemetry_data(s, lap_number, driver_number, fastest_lap) ==
    LET call0 == [NoResult EXCEPT !.op = "get_lap_telemetry_data",
                                  !.lap_number = lap_number,
                                  !.driver_number = driver_number,
                                  !.fastest_lap = fastest_lap]
        df == DictGet(s.session_lap_data_dict, driver_number)
        w == get_lap_start_and_end_time(s, lap_number, driver_number, fastest_lap)
    IN IF lap_number \notin LapNumbersOf(df)
       THEN {[call0 EXCEPT !.outcome = "return", !.warned = TRUE]}
       ELSE IF w.exc # None
       THEN {[call0 EXCEPT !.outcome = "raise", !.exc = w.exc]}
       ELSE LapSamples(call0, w,
                [url |-> CAR_URL,
                 params |-> <<<<"session_key", s.session_key>>,
                              <<"driver_number", driver_number>>>>])

\* Lines 228-238.
get_track_position_for_lap(s, lap_number, driver_number, fastest_lap) ==
    LET call0 == [NoResult EXCEPT !.op = "get_track_position_for_lap",
                                  !.lap_number = lap_number,
                                  !.driver_number = driver_number,
                                  !.fastest_lap = fastest_lap]
        w == get_lap_start_and_end_time(s, lap_number, driver_number, fastest_lap)
    IN IF w.exc # None
       THEN {[call0 EXCEPT !.outcome = "raise", !.exc = w.exc]}
       ELSE LapSamples(call0, w,
                [url |-> LOCATION_URL(s.session_key, driver_number), params |-> None])

Abs(x) == IF x < 0 THEN -x ELSE x

\* pd.merge_asof(left, right, on="date", direction="nearest") on tables
\* sorted by date: left row i gets the right row of the nearest date, the
\* earlier one of two equally near, 0 when the right table is empty.
MergeAsofNearest(left_keys, right_keys) ==
    [i \in 1..Len(left_keys) |->
        IF right_keys = <<>> THEN 0
        ELSE CHOOSE j \in 1..Len(right_keys) :
                \A k \in 1..Len(right_keys) :
                    \/ Abs(right_keys[j] - left_keys[i]) < Abs(right_keys[k] - left_keys[i])
                    \/ /\ Abs(right_keys[j] - left_keys[i]) = Abs(right_keys[k] - left_keys[i])
                       /\ j <= k]

\* Lines 244-248: the telemetry rows, each with the position nearest in time.
MergedPositionAndGear(lap_telemetry_df, lap_track_pos_df) ==
    LET left == SortedBy(lap_telemetry_df,
                         [i \in 1..Len(lap_telemetry_df) |-> lap_telemetry_df[i].date])
        right == SortedBy(lap_track_pos_df,
                          [i \in 1..Len(lap_track_pos_df) |-> lap_track_pos_df[i].date])
        match == MergeAsofNearest([i \in 1..Len(left) |-> left[i].date],
                                  [j \in 1..Len(right) |-> right[j].date])
    IN [i \in 1..Len(left) |->
          [x |-> IF match[i] = 0 THEN None ELSE Some(right[match[i]].x),
           y |-> IF match[i] = 0 THEN None ELSE Some(right[match[i]].y)] @@ left[i]]

\* Lines 240-250: both extractions run before either result is used; a
\* telemetry result of None fails at line 244.
match_track_position_and_gear(s, lap_number, driver_number, fastest_lap) ==
    LET call0 == [NoResult EXCEPT !.op = "match_track_position_and_gear",
                                  !.lap_number = lap_number,
                                  !.driver_number = driver_number,
                                  !.fastest_lap = fastest_lap]
        Both(t, q) ==
            LET c == [call0 EXCEPT !.warned = t.warned, !.window = q.window,
                                   !.gets = t.gets \o q.gets]
            IN IF q.outcome = "raise"
               THEN [c EXCEPT !.outcome = "raise", !.exc = q.exc]
               ELSE IF t.result = None
               THEN [c EXCEPT !.outcome = "raise", !.exc = Some(AttributeError)]
               ELSE [c EXCEPT !.outcome = "return",
                              !.result = Some(MergedPositionAndGear(
                                             Val(t.result), Val(q.result)))]
    IN UNION {IF t.outcome = "raise"
              THEN {[t EXCEPT !.op = "match_track_position_and_gear"]}
              ELSE {Both(t, q) :
                      q \in get_track_position_for_lap(s, lap_number, driver_number,
                                                       fastest_lap)} :
                t \in get_lap_telemetry_data(s, lap_number, driver_number, fastest_lap)}

\* A null sorts last (na_position="last").
NullableLess(x, y) == ~IsNone(x) /\ (IsNone(y) \/ Val(x) < Val(y))

\* The order of sort_values(by=["actual_lap_time", "date_start"]).
LapTimeLess(a, b) ==
    \/ NullableLess(a.actual_lap_time, b.actual_lap_time)
    \/ /\ a.actual_lap_time = b.actual_lap_time
       /\ NullableLess(a.date_start, b.date_start)

\* sort_values(by=["actual_lap_time", "date_start"], ascending=[True, True]):
\* a stable sort, rows of equal keys keep their order.
SortedByLapTime(rows) ==
    LET rank(i) == Cardinality({j \in 1..Len(rows) :
                       \/ LapTimeLess(rows[j], rows[i])
                       \/ (~LapTimeLess(rows[i], rows[j]) /\ j < i)}) + 1
    IN [p \in 1..Len(rows) |-> rows[CHOOSE i \in 1..Len(rows) : rank(i) = p]]

\* Lines 167-174.  Sorting a frame built from no row (no column) is a KeyError.
get_session_position_order(s) ==
    LET call0 == [NoResult EXCEPT !.op = "get_session_position_order"]
    IN IF s.session_fastest_laps = None
       THEN {[call0 EXCEPT !.outcome = "return", !.warned = TRUE]}
       ELSE IF Val(s.session_fastest_laps) = <<>>
       THEN {[call0 EXCEPT !.outcome = "raise", !.exc = Some(KeyError)]}
       ELSE {[call0 EXCEPT !.outcome = "return",
                           !.result = Some(SortedByLapTime(Val(s.session_fastest_laps)))]}

(***************************************************************************)
(* The qualifying segmenter (data_processing.py 247-339).  Timestamps are  *)
(* integer minutes.  A lap row carries driver_number, lap_number, the      *)
(* nullable date_start and actual_lap_time, and is_pit_out_lap.            *)
(***************************************************************************)
Q1Duration == 18

Q1Buffer == 7

Q2Duration == 15

Q2Buffer == 8

RedFlagLimit == 70

TailCount == 5

FailedToRetrieve(status) ==
    [type |-> "Exception", text |-> "Failed to retrieve session data",
     status |-> Some(status)]

InvalidSessionType ==
    [type |-> "ValueError", text |-> "Invalid session type!", status |-> None]

MetadataError(status) ==
    [type |-> "Exception", text |-> "Could not retrieve session metadata.",
     status |-> Some(status)]

EmptyMetadata ==
    [type |-> "Exception", text |-> "Empty session metadata response.",
     status |-> None]

RedFlagError ==
    [type |-> "Exception", text |-> "Session had red flags", status |-> None]

\* Lines 291-300.  No retry: a 429 is a failure like any status but 200.
get_session_type(resp) ==
    IF resp.status # 200
    THEN [exc |-> Some(FailedToRetrieve(resp.status)), session_type |-> "Unknown"]
    ELSE IF resp.payload = <<>>
    THEN [exc |-> Some(NoDataError), session_type |-> "Unknown"]
    ELSE [exc |-> None,
          session_type |-> Get(resp.payload[1], "session_type", "Unknown")]

\* A segmenter whose second window starts after its first instant.
QualifyingSegmentLateQ2(date_start, session_start) ==
    LET q2_start == session_start + Q1Duration + Q1Buffer
        q3_start == q2_start + Q2Duration + Q2Buffer
    IN IF IsNone(date_start) THEN None
       ELSE IF Val(date_start) <= q2_start THEN Some("Q1")
       ELSE IF Val(date_start) < q3_start THEN Some("Q2")
       ELSE Some("Q3")

\* Lines 270-287: the segment of a lap start; a comparison with NaT is false
\* and leaves the column None.
QualifyingSegment(date_start, session_start) ==
    LET q1_start == session_start
        q2_start == q1_start + Q1Duration + Q1Buffer
        q3_start == q2_start + Q2Duration + Q2Buffer
    IN IF IsNone(date_start) THEN None
       ELSE IF Val(date_start) < q2_start THEN Some("Q1")
       ELSE IF Val(date_start) < q3_start THEN Some("Q2")
       ELSE Some("Q3")

\* A red-flag test that also rejects a session of exactly the limit.
RedFlaggedAtLimit(session_start, session_end) ==
    session_end - session_start >= RedFlagLimit

\* Line 266.
RedFlagged(session_start, session_end) ==
    session_end - session_start > RedFlagLimit

\* Lines 247-289.
match_laps_to_qualifying_session(lap_df, resp) ==
    IF resp.status # 200
    THEN [exc |-> Some(MetadataError(resp.status)), lap_df |-> <<>>]
    ELSE IF resp.payload = <<>>
    THEN [exc |-> Some(EmptyMetadata), lap_df |-> <<>>]
    ELSE LET session_info == resp.payload[1]
             session_start == session_info.date_start
             session_end == session_info.date_end
         IN IF RedFlagged(session_start, session_end)
            THEN [exc |-> Some(RedFlagError), lap_df |-> <<>>]
            ELSE [exc |-> None,
                  lap_df |-> [i \in 1..Len(lap_df) |->
                      [Qualifying |-> QualifyingSegment(lap_df[i].date_start,
                                                        session_start)]
                      @@ lap_df[i]]]

\* drop_duplicates(subset=["driver_number"]): the first row of every driver.
DropDuplicateDrivers(rows) ==
    SelectSeq([i \in 1..Len(rows) |->
                  [row |-> rows[i],
                   first |-> \A j \in 1..(i - 1) :
                                rows[j].driver_number # rows[i].driver_number]],
              LAMBDA e : e.first)

\* A result table that keeps the pit-out laps.
QualifyingSessionWithPitOutLaps(qualifying_data, segment) ==
    LET kept == DropDuplicateDrivers(SortedByLapTime(
                   SelectSeq(qualifying_data,
                             LAMBDA r : r.Qualifying = Some(segment))))
    IN [i \in 1..Len(kept) |-> kept[i].row]

\* Lines 324-333 for one segment.
QualifyingSession(qualifying_data, segment) ==
    LET kept == DropDuplicateDrivers(SortedByLapTime(
                   SelectSeq(qualifying_data,
                             LAMBDA r : r.Qualifying = Some(segment)
                                        /\ r.is_pit_out_lap = FALSE)))
    IN [i \in 1..Len(kept) |-> kept[i].row]

\* DataFrame.tail(n)
tail(df, n) == IF Len(df) <= n THEN df ELSE SubSeq(df, Len(df) - n + 1, Len(df))

\* An elimination order with the whole second-segment table.
QualifyingOrderWholeQ2(qualifying_sessions) ==
    qualifying_sessions[3] \o qualifying_sessions[2]
        \o tail(qualifying_sessions[1], TailCount)

\* Lines 335-338.
QualifyingOrder(qualifying_sessions) ==
    LET last_5_drivers_q1 == tail(qualifying_sessions[1], TailCount)
        last_5_drivers_q2 == tail(qualifying_sessions[2], TailCount)
    IN qualifying_sessions[3] \o (last_5_drivers_q2 \o last_5_drivers_q1)

NoQualifyingResult ==
    [op |-> "none", outcome |-> "none", exc |-> None, gets |-> 0,
     qualifying_data |-> None, qualifying_sessions |-> None,
     qualifying_order |-> None]

\* A get_qualifying_results without the check of the session type.
GetQualifyingResultsOfAnyType(lap_df, resp1, resp2) ==
    LET call0 == [NoQualifyingResult EXCEPT !.op = "get_qualifying_results"]
        t == get_session_type(resp1)
        m == match_laps_to_qualifying_session(lap_df, resp2)
        qs == <<QualifyingSession(m.lap_df, "Q1"),
                QualifyingSession(m.lap_df, "Q2"),
                QualifyingSession(m.lap_df, "Q3")>>
    IN IF t.exc # None
       THEN [call0 EXCEPT !.outcome = "raise", !.exc = t.exc, !.gets = 1]
       ELSE IF m.exc # None
       THEN [call0 EXCEPT !.outcome = "raise", !.exc = m.exc, !.gets = 2]
       ELSE [call0 EXCEPT !.outcome = "return", !.gets = 2,
                          !.qualifying_data = Some(m.lap_df),
                          !.qualifying_sessions = Some(qs),
                          !.qualifying_order = Some(QualifyingOrder(qs))]

\* Lines 317-339: resp1 answers get_session_type, resp2 the metadata request
\* of match_laps_to_qualifying_session.
get_qualifying_results(lap_df, resp1, resp2) ==
    LET call0 == [NoQualifyingResult EXCEPT !.op = "get_qualifying_results"]
        t == get_session_type(resp1)
        m == match_laps_to_qualifying_session(lap_df, resp2)
        qs == <<QualifyingSession(m.lap_df, "Q1"),
                QualifyingSession(m.lap_df, "Q2"),
                QualifyingSession(m.lap_df, "Q3")>>
    IN IF t.exc # None
       THEN [call0 EXCEPT !.outcome = "raise", !.exc = t.exc, !.gets = 1]
       ELSE IF t.session_type # "Qualifying"
       THEN [call0 EXCEPT !.outcome = "raise", !.exc = Some(InvalidSessionType),
                          !.gets = 1]
       ELSE IF m.exc # None
       THEN [call0 EXCEPT !.outcome = "raise", !.exc = m.exc, !.gets = 2]
       ELSE [call0 EXCEPT !.outcome = "return", !.gets = 2,
                          !.qualifying_data = Some(m.lap_df),
                          !.qualifying_sessions = Some(qs),
                          !.qualifying_order = Some(QualifyingOrder(qs))]

(***************************************************************************)
(* The dashboard script (dashboard.py).  Every interaction runs the script *)
(* from the top: the weekends fetch, the sessions fetch, then the handler  *)
(* of the button that was pressed.                                         *)
(***************************************************************************)
\* An except branch that keeps the session loaded before.
LoadFailedKeepsSession(so, key) ==
    [session_object |-> so, current_session_key |-> key]

\* Lines 96-99: the except branch of the load.
LoadFailed(so, key) ==
    [session_object |-> None, current_session_key |-> None]

\* A load that stores the Session and not its key.
LoadSucceededWithoutKey(session, session_key) ==
    [session_object |-> Some(session), current_session_key |-> None]

\* Lines 93-95: the load succeeded.
LoadSucceeded(session, session_key) ==
    [session_object |-> Some(session), current_session_key |-> Some(session_key)]

\* Line 87: session_tuples[sessions.index(session)][1]
SessionKeyOf(session_tuples, session) ==
    session_tuples[CHOOSE i \in 1..Len(session_tuples) :
                      /\ session_tuples[i].session_name = session
                      /\ \A j \in 1..(i - 1) : session_tuples[j].session_name # session
                  ].session_key

\* An exception leaves the frame that raised it.  Raised in the script body
\* (the weekends and sessions fetches) it ends the script run and the session
\* state stays; raised inside Session(session_key) it is caught at line 96.
Abort(exc) ==
    /\ EndRun
    /\ self' = None
    /\ IF call.stage \in {"weekends", "sessions"}
       THEN /\ message' = [kind |-> "uncaught", exc |-> Some(exc)]
            /\ UNCHANGED <<session_object, current_session_key>>
       ELSE LET st == LoadFailed(session_object, current_session_key)
            IN /\ message' = [kind |-> "error", exc |-> Some(exc)]
               /\ session_object' = st.session_object
               /\ current_session_key' = st.current_session_key
    /\ UNCHANGED <<weekend_select, selected_weekend, selected_session>>

\* check_request lines 19-22 and 26-29: the fetch ends with a ValueError.
Raise ==
    /\ pc # "idle"
    /\ last = NoCall
    /\ check_request(response).act = "raise"
    /\ last' = Finished
    /\ Abort(Val(check_request(response).exc))
    /\ UNCHANGED <<matching, idx, driver_lap_df, warnings, lib_vars>>

\* A script run starts: helper.get_f1_weekends (dashboard 48-50).
StartRun ==
    /\ pc = "idle"
    /\ message' = [kind |-> "none", exc |-> None]
    /\ StartCall("weekends", Url("meetings", <<>>), <<<<"year", 2025>>>>)
    /\ UNCHANGED <<selected_weekend, selected_session, session_object,
                   current_session_key, ctor_vars, lib_vars>>

\* The user changes the year input: a run with no button pressed.
Rerun ==
    /\ StartRun
    /\ clicked' = None
    /\ UNCHANGED weekend_select

\* The user picks the weekend in the selectbox.
SelectWeekend ==
    /\ weekend_select = None
    /\ StartRun
    /\ clicked' = None
    /\ weekend_select' = Some("Italian Grand Prix")

\* The user presses the i-th session button of the last rendering.
ClickSession(i) ==
    /\ selected_weekend # None
    /\ StartRun
    /\ clicked' = Some(i)
    /\ UNCHANGED weekend_select

\* dashboard 50-73: the weekends are there; with a weekend selected the
\* sessions of that weekend are fetched.
WeekendsLoaded ==
    /\ Returned("weekends")
    /\ LET weekend_tuples == response.payload
           meeting_key ==
               IF weekend_select = None THEN 0
               ELSE weekend_tuples[CHOOSE i \in 1..Len(weekend_tuples) :
                        weekend_tuples[i].meeting_official_name = Val(weekend_select)
                    ].meeting_key
       IN /\ selected_weekend' =
                IF weekend_select = None THEN selected_weekend ELSE weekend_select
          /\ IF selected_weekend' # None
             THEN /\ StartCall("sessions", Url("sessions", <<>>),
                               <<<<"meeting_key", meeting_key>>>>)
                  /\ UNCHANGED clicked
             ELSE /\ EndRun
                  /\ last' = NoCall
    /\ UNCHANGED <<weekend_select, selected_session, session_object,
                   current_session_key, message, ctor_vars, lib_vars>>

\* dashboard 73-93 and Session.__init__ 25-47, get_session_info 97-99: the
\* buttons are rendered; the pressed one selects its session and, unless that
\* session is the current one, starts Session(session_key).
SessionsLoaded ==
    /\ Returned("sessions")
    /\ LET session_tuples == response.payload
       IN IF clicked # None /\ Val(clicked) <= Len(session_tuples)
          THEN LET session == session_tuples[Val(clicked)].session_name
                   session_key == SessionKeyOf(session_tuples, session)
               IN /\ selected_session' = Some(session)
                  /\ IF current_session_key # Some(session_key)
                     THEN /\ self' = Some(NewSession(session_key))
                          /\ matching' = <<>>
                          /\ idx' = 0
                          /\ driver_lap_df' = <<>>
                          /\ warnings' = <<>>
                          /\ StartCall("info", SESSION_URL(session_key), None)
                          /\ UNCHANGED clicked
                     ELSE /\ EndRun
                          /\ last' = NoCall
                          /\ UNCHANGED ctor_vars
          ELSE /\ EndRun
               /\ last' = NoCall
               /\ UNCHANGED <<selected_session, ctor_vars>>
    /\ UNCHANGED <<weekend_select, selected_weekend, session_object,
                   current_session_key, message, lib_vars>>

\* get_session_info 99-103, __init__ 49-50, drivers_match_numbers_to_acronyms
\* 116-117: the session attributes are set and the roster is requested.
InfoLoaded ==
    /\ Returned("info")
    /\ LET session_data == response.payload
           s == Val(self)
       IN /\ self' = Some([s EXCEPT
                 !.session_circuit = Some(Get(session_data[1], "circuit_short_name", "Unknown")),
                 !.session_name = Some(Get(session_data[1], "session_name", "Unknown")),
                 !.session_type = Some(Get(session_data[1], "session_type", "Unknown")),
                 !.session_lap_data_dict = <<>>])
          /\ StartCall("roster", ALL_DRIVERS_URL(s.session_key), None)
    /\ UNCHANGED <<dash_vars, message, matching, idx, driver_lap_df, warnings, lib_vars>>

\* drivers_match_numbers_to_acronyms 118-125, get_session_laps_data 136-139:
\* the roster is resolved and the laps of its first driver are requested.
RosterLoaded ==
    /\ Returned("roster")
    /\ LET r == drivers_match_numbers_to_acronyms(response.payload)
       IN IF r.exc # None
          THEN /\ Abort(Val(r.exc))
               /\ UNCHANGED <<matching, idx, driver_lap_df, warnings, last>>
          ELSE /\ matching' = r.driver_matching
               /\ idx' = 1
               /\ StartCall("laps",
                     DRIVER_LAP_URL(Val(self).session_key, r.driver_matching[1][1]), None)
               /\ UNCHANGED <<dash_vars, message, self, driver_lap_df, warnings>>
    /\ UNCHANGED lib_vars

\* get_session_laps_data 140-146, get_specific_driver_data 105-107.
LapsLoaded ==
    /\ Returned("laps")
    /\ driver_lap_df' = LapTable(response.payload, matching[idx][2])
    /\ StartCall("driver", DRIVER_URL(Val(self).session_key, matching[idx][1]), None)
    /\ UNCHANGED <<dash_vars, message, self, matching, idx, warnings, lib_vars>>

\* get_specific_driver_data 108-113, get_session_laps_data 147-150,
\* get_driver_stints 127-129.
DriverLoaded ==
    /\ Returned("driver")
    /\ driver_lap_df' = WithDriverColor(driver_lap_df, response.payload)
    /\ StartCall("stints", DRIVER_STINT_URL(Val(self).session_key, matching[idx][1]), None)
    /\ UNCHANGED <<dash_vars, message, self, matching, idx, warnings, lib_vars>>

\* get_driver_stints 130-133, get_session_laps_data 151-154, then the next
\* driver (137-139) or, after the last one, __init__ 52-53 and dashboard
\* 93-95: the Session is complete and becomes the dashboard's session.
StintsLoaded ==
    /\ Returned("stints")
    /\ LET driver_number == matching[idx][1]
           r == assign_tire_information_to_lap(driver_lap_df, response.payload)
           s == [Val(self) EXCEPT !.session_lap_data_dict =
                                      DictSet(@, driver_number, r.df)]
       IN /\ warnings' = IF r.incomplete THEN Append(warnings, driver_number)
                         ELSE warnings
          /\ IF idx < Len(matching)
             THEN /\ idx' = idx + 1
                  /\ self' = Some(s)
                  /\ driver_lap_df' = <<>>
                  /\ StartCall("laps",
                        DRIVER_LAP_URL(s.session_key, matching[idx + 1][1]), None)
                  /\ UNCHANGED <<dash_vars, message>>
             ELSE LET done == [s EXCEPT !.session_fastest_laps =
                                  Some(get_fastest_session_lap_for_each_driver(
                                           s.session_lap_data_dict))]
                      st == LoadSucceeded(done, done.session_key)
                  IN /\ idx' = 0
                     /\ self' = None
                     /\ driver_lap_df' = <<>>
                     /\ session_object' = st.session_object
                     /\ current_session_key' = st.current_session_key
                     /\ message' = [kind |-> "success", exc |-> None]
                     /\ EndRun
                     /\ last' = NoCall
                     /\ UNCHANGED <<weekend_select, selected_weekend,
                                    selected_session>>
    /\ UNCHANGED <<matching, lib_vars>>

Init ==
    /\ weekend_select = None
    /\ clicked = None
    /\ selected_weekend = None
    /\ selected_session = None
    /\ session_object = None
    /\ current_session_key = None
    /\ message = [kind |-> "none", exc |-> None]
    /\ pc = "idle"
    /\ self = None
    /\ matching = <<>>
    /\ idx = 0
    /\ driver_lap_df = <<>>
    /\ warnings = <<>>
    /\ call = NoCallInProgress
    /\ response = NoResponse
    /\ last = NoCall
    /\ tire = <<>>
    /\ quali = <<>>
    /\ telemetry = <<>>
    /\ fetch = <<>>
    /\ assembly = <<>>

Next ==
    \/ Rerun
    \/ SelectWeekend
    \/ \E i \in 1..NumSessions : ClickSession(i)
    \/ Retry
    \/ Raise
    \/ Return
    \/ WeekendsLoaded
    \/ SessionsLoaded
    \/ InfoLoaded
    \/ RosterLoaded
    \/ LapsLoaded
    \/ DriverLoaded
    \/ StintsLoaded

Spec == Init /\ [][Next]_vars

(***************************************************************************)
(* assign_tire_information_to_lap on its own: every lap table of a driver  *)
(* (distinct lap numbers, rows in any order) against every stint table     *)
(* (non-overlapping stints, rows in any order, one attribute possibly      *)
(* null).                                                                  *)
(***************************************************************************)
Perms(S) ==
    {p \in [1..Cardinality(S) -> S] :
        \A i, j \in 1..Cardinality(S) : i # j => p[i] # p[j]}

LapTables ==
    UNION {{[i \in 1..Len(p) |-> RawLap(1, p[i])] : p \in Perms(S)} :
              S \in (SUBSET (1..MaxLapNumber)) \ {{}}}

StintRanges ==
    {r \in (1..MaxLapNumber) \X (1..MaxLapNumber) : r[1] <= r[2]}

Disjoint(r1, r2) == r1[2] < r2[1] \/ r2[2] < r1[1]

StintRangeSets ==
    {S \in SUBSET StintRanges :
        /\ Cardinality(S) \in 1..MaxStints
        /\ \A r1, r2 \in S : r1 # r2 => Disjoint(r1, r2)}

NullPatterns == {"none", "compound", "tyre_age_at_start", "stint_number"}

CompoundNames == <<"SOFT", "MEDIUM", "HARD", "INTERMEDIATE", "WET">>

\* A stint row: its compound and number follow from its first lap, its tyre
\* age alternates with it; `null` names the attribute the API left out.
StintRow(r, null) ==
    [driver_number |-> 1,
     stint_number |-> IF null = "stint_number" THEN None ELSE Some(r[1]),
     lap_start |-> r[1],
     lap_end |-> r[2],
     compound |-> IF null = "compound" THEN None ELSE Some(CompoundNames[r[1]]),
     tyre_age_at_start |-> IF null = "tyre_age_at_start" THEN None
                           ELSE Some(r[1] % (MaxTyreAge + 1))]

StintTables ==
    UNION {{[i \in 1..Len(p) |-> StintRow(p[i], f[p[i]])] :
               p \in Perms(S), f \in [S -> NullPatterns]} :
              S \in StintRangeSets}

InitTire ==
    /\ weekend_select = None
    /\ clicked = None
    /\ selected_weekend = None
    /\ selected_session = None
    /\ session_object = None
    /\ current_session_key = None
    /\ message = [kind |-> "none", exc |-> None]
    /\ pc = "idle"
    /\ self = None
    /\ matching = <<>>
    /\ idx = 0
    /\ driver_lap_df = <<>>
    /\ warnings = <<>>
    /\ call = NoCallInProgress
    /\ response = NoResponse
    /\ last = NoCall
    /\ tire \in {[laps |-> l, stints |-> st, done |-> FALSE,
                  df |-> <<>>, incomplete |-> FALSE] :
                    l \in LapTables, st \in StintTables}
    /\ quali = <<>>
    /\ telemetry = <<>>
    /\ fetch = <<>>
    /\ assembly = <<>>

\* Session.assign_tire_information_to_lap(driver_lap_df, driver_stints_df)
AssignTire ==
    /\ ~tire.done
    /\ LET r == assign_tire_information_to_lap(tire.laps, tire.stints)
       IN tire' = [tire EXCEPT !.done = TRUE, !.df = r.df,
                               !.incomplete = r.incomplete]
    /\ UNCHANGED <<dash_vars, message, pc, ctor_vars, call, response, last,
                   quali, telemetry, fetch, assembly>>

NextTire == AssignTire

SpecTire == InitTire /\ [][NextTire]_vars

(***************************************************************************)
(* The operations of a constructed Session on their own: a Session of two  *)
(* drivers, built the way the constructor builds it, the arguments of a    *)
(* caller, and any sequence of calls with them.                            *)
(***************************************************************************)
\* The dashboard is idle and no fetch is in progress.
NoScriptRun ==
    /\ weekend_select = None
    /\ clicked = None
    /\ selected_weekend = None
    /\ selected_session = None
    /\ session_object = None
    /\ current_session_key = None
    /\ message = [kind |-> "none", exc |-> None]
    /\ pc = "idle"
    /\ self = None
    /\ matching = <<>>
    /\ idx = 0
    /\ driver_lap_df = <<>>
    /\ warnings = <<>>
    /\ call = NoCallInProgress
    /\ response = NoResponse
    /\ last = NoCall

\* A record of the laps response with times in the unit of the windows.
TimedLap(d, n, s1, dur) ==
    [driver_number |-> d,
     lap_number |-> n,
     date_start |-> Some(LapStart(d, n)),
     duration_sector_1 |-> s1,
     duration_sector_2 |-> Some(1),
     duration_sector_3 |-> Some(1),
     lap_duration |-> dur,
     is_pit_out_lap |-> FALSE]

SectorOneTimes == {None} \cup {Some(t) : t \in 1..MaxSectorTime}

\* The lap_duration the API reports: below or above every sum of sectors.
LapDurations == {Some(1), Some(9)}

\* The laps responses of the first car: any lap numbers, the latest first.
TimedLapPayloads ==
    UNION {{[i \in 1..Cardinality(S) |->
                LET n == CHOOSE m \in S : Cardinality({k \in S : k > m}) = i - 1
                IN TimedLap(1, n, f[n][1], f[n][2])] :
               f \in [S -> SectorOneTimes \X LapDurations]} :
             S \in (SUBSET (1..MaxTimedLaps)) \ {{}}}

\* The laps response of the other car: its lap 2 is the faster by the
\* sectors, its lap 1 by lap_duration.
OtherCarLaps == <<TimedLap(44, 2, Some(1), Some(9)), TimedLap(44, 1, Some(2), Some(1))>>

\* get_session_laps_data 141-154 for one driver.
DriverTable(driver_lap_data, d, stints) ==
    assign_tire_information_to_lap(
        WithDriverColor(LapTable(driver_lap_data, DriverAcronym(d)),
                        <<[driver_number |-> d, name_acronym |-> DriverAcronym(d),
                           team_colour |-> "3671C6"]>>),
        stints).df

\* Session.__init__ 25-53 on these responses.
BuiltSession(k, laps1, laps44) ==
    LET d1 == DictSet(<<>>, 1, DriverTable(laps1, 1, <<RawStint(1, 1, MaxTimedLaps)>>))
        d2 == DictSet(d1, 44, DriverTable(laps44, 44, <<RawStint(44, 1, MaxTimedLaps)>>))
    IN [NewSession(k) EXCEPT
           !.session_type = Some(SessionTypeOf(k)),
           !.session_circuit = Some("Monza"),
           !.session_name = Some(SessionNames[k]),
           !.session_lap_data_dict = d2,
           !.session_fastest_laps = Some(get_fastest_session_lap_for_each_driver(d2))]

InitTelemetry ==
    /\ NoScriptRun
    /\ tire = <<>>
    /\ quali = <<>>
    /\ fetch = <<>>
    /\ assembly = <<>>
    /\ \E l \in TimedLapPayloads, n \in 0..MaxTimedLaps,
          d \in DriverNumbers, f \in BOOLEAN :
          telemetry = [session |-> BuiltSession(2, l, OtherCarLaps),
                       lap_number |-> n, driver_number |-> d, fastest_lap |-> f,
                       last |-> NoResult]

Called(r) ==
    /\ telemetry' = [telemetry EXCEPT !.last = r]
    /\ UNCHANGED <<dash_vars, message, pc, ctor_vars, call, response, last,
                   tire, quali, fetch, assembly>>

GetLapTelemetryData ==
    \E r \in get_lap_telemetry_data(telemetry.session, telemetry.lap_number,
                 telemetry.driver_number, telemetry.fastest_lap) : Called(r)

GetTrackPositionForLap ==
    \E r \in get_track_position_for_lap(telemetry.session, telemetry.lap_number,
                 telemetry.driver_number, telemetry.fastest_lap) : Called(r)

MatchTrackPositionAndGear ==
    \E r \in match_track_position_and_gear(telemetry.session, telemetry.lap_number,
                 telemetry.driver_number, telemetry.fastest_lap) : Called(r)

GetSessionPositionOrder ==
    \E r \in get_session_position_order(telemetry.session) : Called(r)

NextTelemetry ==
    \/ GetLapTelemetryData
    \/ GetTrackPositionForLap
    \/ MatchTrackPositionAndGear
    \/ GetSessionPositionOrder

SpecTelemetry == InitTelemetry /\ [][NextTelemetry]_vars

(***************************************************************************)
(* The qualifying segmenter on its own: a combined lap table, the session  *)
(* record the remote holds, and the responses to the two requests of       *)
(* get_qualifying_results.                                                 *)
(***************************************************************************)
\* The minute the session starts.
SessionStart == 600

GridSize == 20

Q2Size == 15

Q3Size == 10

QualiLap(d, n, start, time, pit) ==
    [driver_number |-> d, lap_number |-> n, date_start |-> start,
     actual_lap_time |-> time, is_pit_out_lap |-> pit]

\* Lap starts: inside each window and on the two window boundaries, or null.
LapStartOffsets == {10, 25, 30, 48, 50}

QualiLapStarts == {None} \cup {Some(SessionStart + o) : o \in LapStartOffsets}

\* Lap time and pit-out flag of a lap: untimed, one of two times, or a
\* pit-out lap of the faster time.
QualiLapKinds ==
    {<<None, FALSE>>, <<Some(80000), FALSE>>, <<Some(81000), FALSE>>,
     <<Some(80000), TRUE>>}

\* What a lap of a table is drawn from: the car, the start, the kind.
QualiLapChoices == DriverNumbers \X QualiLapStarts \X QualiLapKinds

\* The table of the laps chosen by f, in lap order.
QualiLapTable(f) ==
    [i \in DOMAIN f |-> QualiLap(f[i][1], i, f[i][2], f[i][3][1], f[i][3][2])]

SessionRecord(type, duration) ==
    [session_key |-> 1, session_type |-> type, date_start |-> SessionStart,
     date_end |-> SessionStart + duration]

OkResponse(meta) == [status |-> 200, payload |-> <<meta>>]

\* What a GET of the session record may answer.
MetaResponses(meta) ==
    {OkResponse(meta), [status |-> 200, payload |-> <<>>],
     [status |-> 429, payload |-> <<>>], [status |-> 500, payload |-> <<>>]}

ThreeLaps ==
    <<QualiLap(1, 1, Some(SessionStart + 10), Some(81000), FALSE),
      QualiLap(1, 2, Some(SessionStart + 30), Some(80000), FALSE),
      QualiLap(44, 1, Some(SessionStart + 50), Some(80000), FALSE)>>

SessionRecords ==
    {SessionRecord(t, d) : t \in {"Qualifying", "Race"},
                           d \in (RedFlagLimit - 1)..(RedFlagLimit + 1)}

\* A qualifying of GridSize cars, car i the i-th fastest: all run in the
\* first window, the fastest Q2Size in the second, the fastest Q3Size in the
\* third; the rows come slowest car first.  One car may deviate: it sets no
\* lap in the third window, or starts its second-window lap when the third
\* window has begun, or its first-window lap is a pit-out lap.
Deviations == {"none", "no_q3_lap", "late_q2_lap", "pit_out_q1_lap"}

GridLaps(v, kind) ==
    LET car(i) == GridSize + 1 - i
        q1 == [i \in 1..GridSize |->
                 QualiLap(car(i), 1, Some(SessionStart + 10),
                          Some(90000 + 100 * car(i)),
                          kind = "pit_out_q1_lap" /\ car(i) = v)]
        q2 == SelectSeq([i \in 1..GridSize |->
                 QualiLap(car(i), 2,
                          Some(SessionStart
                               + (IF kind = "late_q2_lap" /\ car(i) = v
                                  THEN 48 ELSE 30)),
                          Some(85000 + 100 * car(i)), FALSE)],
                 LAMBDA r : r.driver_number <= Q2Size)
        q3 == SelectSeq([i \in 1..GridSize |->
                 QualiLap(car(i), 3, Some(SessionStart + 50),
                          Some(80000 + 100 * car(i)), FALSE)],
                 LAMBDA r : /\ r.driver_number <= Q3Size
                            /\ ~(kind = "no_q3_lap" /\ r.driver_number = v))
    IN q1 \o q2 \o q3

GridTables ==
    {GridLaps(v, kind) : v \in {1, Q3Size, Q3Size + 1, Q2Size, GridSize},
                         kind \in Deviations}

QualiInput(lap_df, resp1, resp2) ==
    [lap_df |-> lap_df, resp1 |-> resp1, resp2 |-> resp2,
     result |-> NoQualifyingResult]

\* Every table of up to MaxQualiLaps laps of the two cars, the first lap the
\* first car's, and every grid, in a session of 60 minutes; the three laps
\* against every answer to the two requests.
InitQuali ==
    /\ NoScriptRun
    /\ tire = <<>>
    /\ telemetry = <<>>
    /\ fetch = <<>>
    /\ assembly = <<>>
    /\ LET hour == OkResponse(SessionRecord("Qualifying", 60))
       IN \/ \E k \in 1..MaxQualiLaps : \E f \in [1..k -> QualiLapChoices] :
                /\ f[1][1] = 1
                /\ quali = QualiInput(QualiLapTable(f), hour, hour)
          \/ \E l \in GridTables : quali = QualiInput(l, hour, hour)
          \/ \E m1, m2 \in SessionRecords :
                \E r1 \in MetaResponses(m1), r2 \in MetaResponses(m2) :
                   quali = QualiInput(ThreeLaps, r1, r2)

\* dp.get_qualifying_results(lap_df, session_key)
GetQualifyingResults ==
    /\ quali.result.op = "none"
    /\ quali' = [quali EXCEPT !.result =
                    get_qualifying_results(quali.lap_df, quali.resp1, quali.resp2)]
    /\ UNCHANGED <<dash_vars, message, pc, ctor_vars, call, response, last,
                   tire, telemetry, fetch, assembly>>

\* dp.match_laps_to_qualifying_session(lap_df, session_key)
MatchLapsToQualifyingSession ==
    /\ quali.result.op = "none"
    /\ LET m == match_laps_to_qualifying_session(quali.lap_df, quali.resp2)
       IN quali' = [quali EXCEPT !.result =
             [NoQualifyingResult EXCEPT
                 !.op = "match_laps_to_qualifying_session",
                 !.outcome = IF m.exc = None THEN "return" ELSE "raise",
                 !.exc = m.exc,
                 !.gets = 1,
                 !.qualifying_data = IF m.exc = None THEN Some(m.lap_df) ELSE None]]
    /\ UNCHANGED <<dash_vars, message, pc, ctor_vars, call, response, last,
                   tire, telemetry, fetch, assembly>>

NextQuali ==
    \/ GetQualifyingResults
    \/ MatchLapsToQualifyingSession

SpecQuali == InitQuali /\ [][NextQuali]_vars

(***************************************************************************)
(* The fetches of data_processing.py that carry their own retry loop: the  *)
(* lap fetch of get_all_laps_in_session (62-76), get_driver_stint          *)
(* (125-142) and get_driver_color (343-359).  One fetch is followed from   *)
(* its first GET to its outcome; statuses holds the status of every        *)
(* response received so far, empty whether the last body decoded to an     *)
(* empty list.                                                             *)
(***************************************************************************)
FetchRoutines == {"get_all_laps_in_session", "get_driver_stint", "get_driver_color"}

ResponseStatuses == {200, 429} \cup OtherStatuses

NewFetch(routine) ==
    [routine |-> routine, pc |-> "request", statuses |-> <<>>,
     empty |-> FALSE, data_could_not_be_loaded |-> FALSE, slept |-> 0,
     outcome |-> "none", exc |-> None]

LastStatus(f) == f.statuses[Len(f.statuses)]

\* The loop's exit test: the flag is cleared on a 200 and on nothing else.
KeepsRetrying(status) == status # 200

\* What the routine does with the response it is left with.
FetchOutcome(routine, status, empty) ==
    CASE routine = "get_all_laps_in_session" ->
            IF status # 200 THEN [outcome |-> "return_none", exc |-> None]
            ELSE IF empty THEN [outcome |-> "skip_driver", exc |-> None]
            ELSE [outcome |-> "continue", exc |-> None]
      [] routine = "get_driver_stint" ->
            IF status # 200 THEN [outcome |-> "return_none", exc |-> None]
            ELSE [outcome |-> "return", exc |-> None]
      [] routine = "get_driver_color" ->
            IF status # 200
            THEN [outcome |-> "raise", exc |-> Some(FailedToRetrieve(status))]
            ELSE IF empty THEN [outcome |-> "raise", exc |-> Some(NoDataError)]
            ELSE [outcome |-> "return", exc |-> None]

InitLegacyFetch ==
    /\ NoScriptRun
    /\ tire = <<>>
    /\ quali = <<>>
    /\ telemetry = <<>>
    /\ assembly = <<>>
    /\ fetch \in {NewFetch(r) : r \in FetchRoutines}

\* requests.get at 63 / 126 / 344 and the test for 429 that follows it.
RequestOnce ==
    /\ fetch.pc = "request"
    /\ \E status \in ResponseStatuses, empty \in BOOLEAN :
          /\ (status # 200 => ~empty)
          /\ fetch' = [fetch EXCEPT
                          !.statuses = <<status>>,
                          !.empty = empty,
                          !.data_could_not_be_loaded = (status = 429),
                          !.slept = 0,
                          !.pc = IF status = 429 THEN "sleep" ELSE "check"]
    /\ UNCHANGED <<dash_vars, message, pc, ctor_vars, call, response, last,
                   tire, quali, telemetry, assembly>>

\* One second of the five the loop sleeps before it asks again.
Sleep ==
    /\ fetch.pc = "sleep"
    /\ fetch.slept < RetryDelay
    /\ fetch' = [fetch EXCEPT !.slept = @ + 1]
    /\ UNCHANGED <<dash_vars, message, pc, ctor_vars, call, response, last,
                   tire, quali, telemetry, assembly>>

\* requests.get inside the loop (70 / 133 / 351) and the loop's exit test.
RequestAgain ==
    /\ fetch.pc = "sleep"
    /\ fetch.slept = RetryDelay
    /\ Len(fetch.statuses) < MaxFetchGets
    /\ \E status \in ResponseStatuses, empty \in BOOLEAN :
          /\ (status # 200 => ~empty)
          /\ fetch' = [fetch EXCEPT
                          !.statuses = Append(@, status),
                          !.empty = empty,
                          !.data_could_not_be_loaded = KeepsRetrying(status),
                          !.slept = 0,
                          !.pc = IF KeepsRetrying(status) THEN "sleep" ELSE "check"]
    /\ UNCHANGED <<dash_vars, message, pc, ctor_vars, call, response, last,
                   tire, quali, telemetry, assembly>>

\* The code after the loop: 73-86 / 137-142 / 354-359.
FinishFetch ==
    /\ fetch.pc = "check"
    /\ LET o == FetchOutcome(fetch.routine, LastStatus(fetch), fetch.empty)
       IN fetch' = [fetch EXCEPT !.pc = "done",
                                 !.outcome = o.outcome,
                                 !.exc = o.exc]
    /\ UNCHANGED <<dash_vars, message, pc, ctor_vars, call, response, last,
                   tire, quali, telemetry, assembly>>

NextLegacyFetch ==
    \/ RequestOnce
    \/ Sleep
    \/ RequestAgain
    \/ FinishFetch

SpecLegacyFetch == InitLegacyFetch /\ [][NextLegacyFetch]_vars

(***************************************************************************)
(* The public operations of a constructed Session, called any number of    *)
(* times in any order with the arguments of a caller (session_object.py    *)
(* 167-311).  A frame of the model is a value; the result of              *)
(* compare_fastest_lap_characteristics carries, as self, the Session the   *)
(* call leaves behind.                                                     *)
(***************************************************************************)
COMPOUND_COLORS ==
    [SOFT |-> "#FF0000", MEDIUM |-> "#FFD800", HARD |-> "#808080",
     INTERMEDIATE |-> "#00A550", WET |-> "#0072C6"]

\* str.capitalize() on the compound names.
Capitalized ==
    [SOFT |-> "Soft", MEDIUM |-> "Medium", HARD |-> "Hard",
     INTERMEDIATE |-> "Intermediate", WET |-> "Wet"]

NoObjectsToConcatenate ==
    [type |-> "ValueError", text |-> "No objects to concatenate", status |-> None]

\* matplotlib on a colour that is NaN.
InvalidColor ==
    [type |-> "ValueError", text |-> "Invalid RGBA argument", status |-> None]

\* Line 279 on a Compound that is None or NaN.
NoCapitalize ==
    [type |-> "AttributeError", text |-> "object has no attribute 'capitalize'",
     status |-> None]

\* Lines 176-191 as an operation of its own.
GetLapStartAndEndTimeResult(s, lap_number, driver_number, fastest_lap) ==
    LET call0 == [NoResult EXCEPT !.op = "get_lap_start_and_end_time",
                                  !.lap_number = lap_number,
                                  !.driver_number = driver_number,
                                  !.fastest_lap = fastest_lap]
        w == get_lap_start_and_end_time(s, lap_number, driver_number, fastest_lap)
    IN IF w.exc # None
       THEN [call0 EXCEPT !.outcome = "raise", !.exc = w.exc]
       ELSE [call0 EXCEPT !.outcome = "return", !.window = w,
                          !.result = Some(<<w.start, w.duration, w.end>>)]

\* pd.concat of the tables of the dict, in the order of the dict.
RECURSIVE ConcatTables(_)
ConcatTables(d) ==
    IF d = <<>> THEN <<>>
    ELSE ConcatTables(SubSeq(d, 1, Len(d) - 1)) \o d[Len(d)][2]

\* Lines 252-257.
create_full_session_df(s) ==
    LET call0 == [NoResult EXCEPT !.op = "create_full_session_df"]
    IN IF s.session_lap_data_dict = <<>>
       THEN [call0 EXCEPT !.outcome = "raise", !.exc = Some(NoObjectsToConcatenate)]
       ELSE [call0 EXCEPT !.outcome = "return",
                          !.result = Some(ConcatTables(s.session_lap_data_dict))]

\* Line 268: filtered_df['bar_color'] = filtered_df['Compound'].map(COMPOUND_COLORS)
WithBarColor(df) ==
    [i \in 1..Len(df) |->
        [bar_color |-> IF IsNone(df[i].Compound) THEN None
                       ELSE IF Val(df[i].Compound) \in DOMAIN COMPOUND_COLORS
                       THEN Some(COMPOUND_COLORS[Val(df[i].Compound)])
                       ELSE None] @@ df[i]]

\* Lines 283-296: the three shaded groups of a qualifying chart.
group_boundaries == <<<<0, Q3Size, "Q3">>, <<Q3Size, Q2Size, "Q2">>,
                      <<Q2Size, GridSize, "Q1">>>>

\* Lines 270-311: one bar for each row of plotting_df (the rows name distinct
\* drivers), with its height, colour, compound label and tick colour.
Figure(s, plotting_df) ==
    [bars |-> [i \in 1..Len(plotting_df) |->
                 [x |-> plotting_df[i].Driver_Acronym,
                  height |-> Val(plotting_df[i].actual_lap_time),
                  color |-> Val(plotting_df[i].bar_color),
                  text |-> Capitalized[Val(plotting_df[i].Compound)],
                  label_color |-> IF plotting_df[i].Driver_Color = "Unknown"
                                  THEN "#000000"
                                  ELSE plotting_df[i].Driver_Color]],
     title |-> <<Val(s.session_circuit), Val(s.session_name)>>,
     groups |-> IF s.session_type = Some("Qualifying") THEN group_boundaries
                ELSE <<>>]

\* Lines 261-269: the frame that is plotted, and the requests made for it.
\* resp1 and resp2 answer the two requests of get_qualifying_results.
PlottingFrame(s, resp1, resp2) ==
    LET full == create_full_session_df(s)
        q == get_qualifying_results(Val(full.result), resp1, resp2)
        req == [url |-> SESSION_URL(s.session_key), params |-> None]
        sorted == DropDuplicateDrivers(SortedByLapTime(Val(full.result)))
    IN IF full.outcome = "raise"
       THEN [exc |-> full.exc, gets |-> <<>>, plotting_df |-> <<>>]
       ELSE IF s.session_type = Some("Qualifying")
       THEN IF q.outcome = "raise"
            THEN [exc |-> q.exc, gets |-> [i \in 1..q.gets |-> req],
                  plotting_df |-> <<>>]
            ELSE [exc |-> None, gets |-> [i \in 1..q.gets |-> req],
                  plotting_df |->
                     SelectSeq(WithBarColor(Val(q.qualifying_order)),
                               LAMBDA r : ~IsNone(r.actual_lap_time))]
       ELSE [exc |-> None, gets |-> <<>>,
             plotting_df |->
                SelectSeq(WithBarColor([i \in 1..Len(sorted) |-> sorted[i].row]),
                          LAMBDA r : ~IsNone(r.actual_lap_time))]

\* The chart of a caller whose colouring is written into the stored tables.
CompareColouringStoredTables(s, resp1, resp2) ==
    LET call0 == [NoResult EXCEPT !.op = "compare_fastest_lap_characteristics"]
        f == PlottingFrame(s, resp1, resp2)
        coloured == [s EXCEPT !.session_lap_data_dict =
                        [i \in 1..Len(@) |-> <<@[i][1], WithBarColor(@[i][2])>>]]
    IN IF f.exc # None
       THEN {[self |-> s] @@ [call0 EXCEPT !.outcome = "raise", !.exc = f.exc,
                                           !.gets = f.gets]}
       ELSE {[self |-> coloured]
             @@ [call0 EXCEPT !.outcome = "raise", !.exc = Some(IndexError),
                              !.gets = f.gets]}

\* Lines 259-311.  bar_color is assigned to filtered_df, the frame returned
\* by pd.concat or by sort_values and drop_duplicates, never to a table of
\* self.  No row to plot fails at line 305; a row without a known compound
\* fails when its bar is coloured or when its compound is capitalized.
compare_fastest_lap_characteristics(s, resp1, resp2) ==
    LET call0 == [self |-> s]
                 @@ [NoResult EXCEPT !.op = "compare_fastest_lap_characteristics"]
        f == PlottingFrame(s, resp1, resp2)
    IN IF f.exc # None
       THEN {[call0 EXCEPT !.outcome = "raise", !.exc = f.exc, !.gets = f.gets]}
       ELSE IF f.plotting_df = <<>>
       THEN {[call0 EXCEPT !.outcome = "raise", !.exc = Some(IndexError),
                           !.gets = f.gets]}
       ELSE IF \E i \in 1..Len(f.plotting_df) : IsNone(f.plotting_df[i].bar_color)
       THEN {[call0 EXCEPT !.outcome = "raise", !.exc = Some(e), !.gets = f.gets] :
                e \in {InvalidColor, NoCapitalize}}
       ELSE {[call0 EXCEPT !.outcome = "return", !.gets = f.gets,
                           !.result = Some(Figure(s, f.plotting_df))]}

\* The laps responses of the first car here: any lap numbers, the latest
\* first, the earliest lap timed or not.
UsedLapPayloads ==
    UNION {{[i \in 1..Cardinality(S) |->
                LET n == CHOOSE m \in S : Cardinality({k \in S : k > m}) = i - 1
                IN TimedLap(1, n, IF Cardinality({k \in S : k < n}) = 0
                                  THEN s1 ELSE Some(1), Some(9))] :
               s1 \in {None, Some(2)}} :
             S \in (SUBSET (1..MaxTimedLaps)) \ {{}}}

\* Session.__init__ 25-53 on these responses; the stint of the first car
\* ends with lap stint_end.
UsedSession(k, laps1, stint_end) ==
    LET d1 == DictSet(<<>>, 1, DriverTable(laps1, 1, <<RawStint(1, 1, stint_end)>>))
        d2 == DictSet(d1, 44, DriverTable(OtherCarLaps, 44,
                                          <<RawStint(44, 1, MaxTimedLaps)>>))
    IN [NewSession(k) EXCEPT
           !.session_type = Some(SessionTypeOf(k)),
           !.session_circuit = Some("Monza"),
           !.session_name = Some(SessionNames[k]),
           !.session_lap_data_dict = d2,
           !.session_fastest_laps = Some(get_fastest_session_lap_for_each_driver(d2))]

InitSessionUse ==
    /\ NoScriptRun
    /\ tire = <<>>
    /\ quali = <<>>
    /\ fetch = <<>>
    /\ assembly = <<>>
    /\ \E k \in SessionKeys, l \in UsedLapPayloads, e \in {1, MaxTimedLaps},
          n \in 0..MaxTimedLaps, d \in DriverNumbers, f \in BOOLEAN :
          telemetry = [session |-> UsedSession(k, l, e),
                       lap_number |-> n, driver_number |-> d, fastest_lap |-> f,
                       last |-> NoResult]

GetLapStartAndEndTime ==
    \E r \in {GetLapStartAndEndTimeResult(telemetry.session, telemetry.lap_number,
                  telemetry.driver_number, telemetry.fastest_lap)} : Called(r)

CreateFullSessionDf ==
    \E r \in {create_full_session_df(telemetry.session)} : Called(r)

\* What the remote may answer to the requests of a chart: the session record
\* is asked for only when the session is a qualifying.
ChartResponses(s) ==
    IF s.session_type = Some("Qualifying")
    THEN MetaResponses(SessionRecord("Qualifying", 60))
    ELSE {NoResponse}

CompareFastestLapCharacteristics ==
    \E resp1, resp2 \in ChartResponses(telemetry.session) :
       \E r \in compare_fastest_lap_characteristics(telemetry.session, resp1, resp2) :
          /\ telemetry' = [telemetry EXCEPT !.last = r, !.session = r.self]
          /\ UNCHANGED <<dash_vars, message, pc, ctor_vars, call, response, last,
                         tire, quali, fetch, assembly>>

NextSessionUse ==
    \/ GetSessionPositionOrder
    \/ GetLapStartAndEndTime
    \/ GetLapTelemetryData
    \/ GetTrackPositionForLap
    \/ MatchTrackPositionAndGear
    \/ CreateFullSessionDf
    \/ CompareFastestLapCharacteristics

SpecSessionUse == InitSessionUse /\ [][NextSessionUse]_vars

(***************************************************************************)
(* Session(session_key) constructed twice against a stable remote: every   *)
(* request has one response, the same each time it is made.  The steps are *)
(* those of Session.__init__ (session_object.py 25-53), one per fetch.     *)
(***************************************************************************)
RosterRecord(d, a) == [driver_number |-> d, name_acronym |-> a]

\* Roster responses: both cars in either order, one car, a record repeated,
\* and two numbers under one acronym.
StableRosters ==
    {<<RosterRecord(1, "VER"), RosterRecord(44, "HAM")>>,
     <<RosterRecord(44, "HAM"), RosterRecord(1, "VER")>>,
     <<RosterRecord(1, "VER")>>,
     <<RosterRecord(44, "HAM"), RosterRecord(1, "VER"), RosterRecord(44, "HAM")>>,
     <<RosterRecord(1, "VER"), RosterRecord(44, "VER")>>}

Ok(payload) == [status |-> 200, payload |-> payload]

ServerError == [status |-> 500, payload |-> <<>>]

\* The response of the stable remote to a GET of this URL.
StableResponse(remote, url) ==
    LET ep == url[1]
        q == url[2]
    IN CASE ep = "sessions" -> remote.info
         [] ep = "drivers" /\ ~Has(q, "driver_number") -> remote.roster
         [] ep = "drivers" /\ Has(q, "driver_number") ->
              remote.driver[Param(q, "driver_number")]
         [] ep = "laps" -> remote.laps[Param(q, "driver_number")]
         [] ep = "stints" -> remote.stints[Param(q, "driver_number")]

\* requests.get(url) followed by helper.check_request(response, url).
Fetch(url) == check_request(StableResponse(assembly.remote, url))

\* A dict filled from a set of the roster: the drivers in any order.
RosterResolutionsInAnyOrder(all_drivers) ==
    LET r == drivers_match_numbers_to_acronyms(all_drivers)
        n == Len(r.driver_matching)
    IN {[r EXCEPT !.driver_matching = [i \in 1..n |-> r.driver_matching[p[i]]]] :
           p \in Perms(1..n)}

\* Lines 115-125: the outcomes of resolving the roster.
RosterResolutions(all_drivers) ==
    {drivers_match_numbers_to_acronyms(all_drivers)}

assembly_rest ==
    <<dash_vars, message, call, response, last, tire, quali, telemetry, fetch>>

\* Session(session_key) ends with an exception: no object is returned.
AssemblyRaises(exc) ==
    /\ assembly' = [assembly EXCEPT !.built =
                       Append(@, [outcome |-> "raise", exc |-> Some(exc),
                                  session |-> None])]
    /\ self' = None
    /\ pc' = "idle"

InitAssembly ==
    /\ NoScriptRun
    /\ tire = <<>>
    /\ quali = <<>>
    /\ telemetry = <<>>
    /\ fetch = <<>>
    /\ \E k \in SessionKeys :
       \E info \in {Ok(p) : p \in Payloads([url |-> SESSION_URL(k)])} \cup {ServerError},
          roster \in {Ok(p) : p \in StableRosters} \cup {ServerError},
          l1 \in LapPayloads(1), l44 \in LapPayloads(44),
          s1 \in StintPayloads(1), s44 \in StintPayloads(44) :
          assembly =
              [session_key |-> k,
               remote |->
                  [info |-> info,
                   roster |-> roster,
                   laps |-> [d \in DriverNumbers |-> Ok(IF d = 1 THEN l1 ELSE l44)],
                   driver |-> [d \in DriverNumbers |->
                                  Ok(<<[driver_number |-> d,
                                        name_acronym |-> DriverAcronym(d),
                                        team_colour |-> "3671C6"]>>)],
                   stints |-> [d \in DriverNumbers |-> Ok(IF d = 1 THEN s1 ELSE s44)]],
               built |-> <<>>]

\* Session(session_key) is called: __init__ 25-47 and the fetch of
\* get_session_info (97-103), then line 49.
AssembleInfo ==
    /\ pc = "idle"
    /\ Len(assembly.built) < 2
    /\ matching' = <<>>
    /\ idx' = 0
    /\ driver_lap_df' = <<>>
    /\ warnings' = <<>>
    /\ LET s == NewSession(assembly.session_key)
           f == Fetch(SESSION_URL(s.session_key))
           session_data == f.data
       IN IF f.act = "raise"
          THEN AssemblyRaises(Val(f.exc))
          ELSE /\ self' = Some([s EXCEPT
                      !.session_circuit = Some(Get(session_data[1], "circuit_short_name", "Unknown")),
                      !.session_name = Some(Get(session_data[1], "session_name", "Unknown")),
                      !.session_type = Some(Get(session_data[1], "session_type", "Unknown")),
                      !.session_lap_data_dict = <<>>])
               /\ pc' = "roster"
               /\ UNCHANGED assembly
    /\ UNCHANGED assembly_rest

\* drivers_match_numbers_to_acronyms 115-125 and the head of the loop of
\* get_session_laps_data (136-137).
AssembleRoster ==
    /\ pc = "roster"
    /\ LET f == Fetch(ALL_DRIVERS_URL(Val(self).session_key))
       IN IF f.act = "raise"
          THEN /\ AssemblyRaises(Val(f.exc))
               /\ UNCHANGED <<matching, idx>>
          ELSE \E r \in RosterResolutions(f.data) :
                  IF r.exc # None
                  THEN /\ AssemblyRaises(Val(r.exc))
                       /\ UNCHANGED <<matching, idx>>
                  ELSE /\ matching' = r.driver_matching
                       /\ idx' = 1
                       /\ pc' = "laps"
                       /\ UNCHANGED <<self, assembly>>
    /\ UNCHANGED <<driver_lap_df, warnings, assembly_rest>>

\* get_session_laps_data 138-146: the laps of the driver at hand.
AssembleLaps ==
    /\ pc = "laps"
    /\ LET f == Fetch(DRIVER_LAP_URL(Val(self).session_key, matching[idx][1]))
       IN IF f.act = "raise"
          THEN /\ AssemblyRaises(Val(f.exc))
               /\ UNCHANGED driver_lap_df
          ELSE /\ driver_lap_df' = LapTable(f.data, matching[idx][2])
               /\ pc' = "driver"
               /\ UNCHANGED <<self, assembly>>
    /\ UNCHANGED <<matching, idx, warnings, assembly_rest>>

\* get_specific_driver_data 105-113 and line 147.
AssembleDriver ==
    /\ pc = "driver"
    /\ LET f == Fetch(DRIVER_URL(Val(self).session_key, matching[idx][1]))
       IN IF f.act = "raise"
          THEN /\ AssemblyRaises(Val(f.exc))
               /\ UNCHANGED driver_lap_df
          ELSE /\ driver_lap_df' = WithDriverColor(driver_lap_df, f.data)
               /\ pc' = "stints"
               /\ UNCHANGED <<self, assembly>>
    /\ UNCHANGED <<matching, idx, warnings, assembly_rest>>

\* get_driver_stints 127-133 and get_session_laps_data 151-154, then the
\* next driver or, after the last one, __init__ 52-53: the Session is
\* returned.
AssembleStints ==
    /\ pc = "stints"
    /\ LET driver_number == matching[idx][1]
           f == Fetch(DRIVER_STINT_URL(Val(self).session_key, driver_number))
           r == assign_tire_information_to_lap(driver_lap_df, f.data)
           s == [Val(self) EXCEPT !.session_lap_data_dict =
                                      DictSet(@, driver_number, r.df)]
           done == [s EXCEPT !.session_fastest_laps =
                       Some(get_fastest_session_lap_for_each_driver(
                                s.session_lap_data_dict))]
       IN IF f.act = "raise"
          THEN /\ AssemblyRaises(Val(f.exc))
               /\ UNCHANGED <<idx, warnings>>
          ELSE /\ warnings' = IF r.incomplete THEN Append(warnings, driver_number)
                              ELSE warnings
               /\ IF idx < Len(matching)
                  THEN /\ idx' = idx + 1
                       /\ self' = Some(s)
                       /\ pc' = "laps"
                       /\ UNCHANGED assembly
                  ELSE /\ idx' = 0
                       /\ self' = None
                       /\ pc' = "idle"
                       /\ assembly' = [assembly EXCEPT !.built =
                             Append(@, [outcome |-> "return", exc |-> None,
                                        session |-> Some(done)])]
    /\ driver_lap_df' = <<>>
    /\ UNCHANGED <<matching, assembly_rest>>

NextAssembly ==
    \/ AssembleInfo
    \/ AssembleRoster
    \/ AssembleLaps
    \/ AssembleDriver
    \/ AssembleStints

SpecAssembly == InitAssembly /\ [][NextAssembly]_vars

(***************************************************************************)
(* Claims.                                                                 *)
(***************************************************************************)
Covers(stint, lap) ==
    stint.lap_start <= lap.lap_number /\ lap.lap_number <= stint.lap_end

\* The row of the assembled table df for the lap with this lap number.
RowsOf(df, lap_number) == {i \in 1..Len(df) : df[i].lap_number = lap_number}

\* C4: every lap inside a stint's [lap_start, lap_end] carries that stint's
\* compound and stint number and the tire age tyre_age_at_start +
\* (lap_number - lap_start) (null when the stint's tyre age is null), in
\* whatever order the lap and stint rows come and with lap numbers missing.
C4_LapInStintCarriesItsTire ==
    tire.done =>
        \A j \in 1..Len(tire.stints) : \A i \in 1..Len(tire.laps) :
            LET stint == tire.stints[j]
                lap == tire.laps[i]
            IN Covers(stint, lap) =>
                 /\ RowsOf(tire.df, lap.lap_number) # {}
                 /\ \A k \in RowsOf(tire.df, lap.lap_number) :
                      /\ tire.df[k].date_start = lap.date_start
                      /\ tire.df[k].Compound = stint.compound
                      /\ tire.df[k].Stint_Number = stint.stint_number
                      /\ tire.df[k].Tire_Age =
                           IF IsNone(stint.tyre_age_at_start) THEN None
                           ELSE Some(Val(stint.tyre_age_at_start)
                                     + (lap.lap_number - stint.lap_start))

\* C4's case: two stints given latest first, laps given out of order, a lap
\* number missing inside a stint's range, and a later lap of that stint.
C4_Witness ==
    /\ tire.done
    /\ Len(tire.stints) = 2
    /\ tire.stints[1].lap_start > tire.stints[2].lap_start
    /\ \E i \in 1..(Len(tire.laps) - 1) :
          tire.laps[i].lap_number > tire.laps[i + 1].lap_number
    /\ \E j \in 1..Len(tire.stints) : \E i \in 1..Len(tire.laps) :
          /\ Covers(tire.stints[j], tire.laps[i])
          /\ tire.laps[i].lap_number > tire.stints[j].lap_start
          /\ RowsOf(tire.laps, tire.stints[j].lap_start) = {}
          /\ ~IsNone(tire.stints[j].tyre_age_at_start)

NullTire(row) ==
    IsNone(row.Compound) \/ IsNone(row.Tire_Age) \/ IsNone(row.Stint_Number)

\* C5: a lap no stint covers keeps its row, with null Compound, Tire Age and
\* Stint Number, and flags the driver; the flag is set exactly when some lap
\* ends with a null tire attribute.
C5_UncoveredLapIsNullAndFlagged ==
    tire.done =>
        /\ Len(tire.df) = Len(tire.laps)
        /\ \A i \in 1..Len(tire.laps) :
              (\A j \in 1..Len(tire.stints) : ~Covers(tire.stints[j], tire.laps[i]))
              => /\ RowsOf(tire.df, tire.laps[i].lap_number) # {}
                 /\ \A k \in RowsOf(tire.df, tire.laps[i].lap_number) :
                      /\ tire.df[k].date_start = tire.laps[i].date_start
                      /\ IsNone(tire.df[k].Compound)
                      /\ IsNone(tire.df[k].Tire_Age)
                      /\ IsNone(tire.df[k].Stint_Number)
                 /\ tire.incomplete
        /\ tire.incomplete <=> \E k \in 1..Len(tire.df) : NullTire(tire.df[k])

\* C5's case: a lap in the gap between two stints whose attributes are all
\* there, and the flag raised for it.
C5_Witness ==
    /\ tire.done
    /\ tire.incomplete
    /\ Len(tire.stints) = 2
    /\ \A j \in 1..2 : /\ ~IsNone(tire.stints[j].compound)
                       /\ ~IsNone(tire.stints[j].tyre_age_at_start)
                       /\ ~IsNone(tire.stints[j].stint_number)
    /\ \E i \in 1..Len(tire.laps) :
          /\ \A j \in 1..2 : ~Covers(tire.stints[j], tire.laps[i])
          /\ \E j1, j2 \in 1..2 :
                /\ tire.stints[j1].lap_end < tire.laps[i].lap_number
                /\ tire.laps[i].lap_number < tire.stints[j2].lap_start

\* C1: a fetch answered by n 429 responses and then a 200 with data issues
\* exactly n further GETs, each to the url and params of the original call
\* and each after the 5 second delay, and returns the payload of the 200.
C1_RetriesThenPayload ==
    last.outcome = "return" =>
        /\ last.status = 200
        /\ Len(last.gets) = last.n429
        /\ \A i \in 1..Len(last.gets) :
              /\ last.gets[i].url = last.url
              /\ last.gets[i].params = last.params
              /\ last.gets[i].delay = 5
        /\ last.data = last.payload

\* C1's case: the responses 429, 429, 200 to a request that carries params.
C1_Witness ==
    /\ last.outcome = "return"
    /\ last.n429 = 2
    /\ Len(last.gets) = 2
    /\ last.params # None

\* C2: a response that is neither 200 nor 429 ends the fetch with an error
\* carrying its status code, first or after 429 responses; a GET is re-issued
\* only in answer to a 429, so none follows such a response.
C2_OtherStatusEndsFetch ==
    /\ (pc # "idle" /\ last = NoCall) =>
          Len(call.gets) + (IF response.status = 429 THEN 1 ELSE 0) = call.n429
    /\ last.status \notin {0, 200, 429} =>
          /\ last.outcome = "raise"
          /\ last.exc # None
          /\ Val(last.exc).status = Some(last.status)
          /\ Len(last.gets) = last.n429
          /\ pc = "idle"

\* C2's case: a 500 after at least one 429.
C2_Witness ==
    /\ last.status = 500
    /\ last.n429 >= 1
    /\ last.outcome = "raise"

\* C3: a 200 response with an empty payload ends the fetch with the no-data
\* error; whatever check_request returns is a non-empty sequence of records.
C3_EmptyPayloadIsAnError ==
    /\ last.outcome = "return" => last.data # <<>>
    /\ (last.status = 200 /\ last.payload = <<>>) =>
          /\ last.outcome = "raise"
          /\ last.exc = Some(NoDataError)
          /\ pc = "idle"

\* C3's case: an empty 200 ended a fetch.
C3_Witness ==
    /\ last.status = 200
    /\ last.payload = <<>>
    /\ last.outcome = "raise"

ConstructorStages == {"info", "roster", "laps", "driver", "stints"}

\* C6 as claimed: a driver whose laps fetch answers 200 with no lap is
\* skipped silently; no error is raised and the assembly goes on.
C6_ZeroLapDriverIsSkipped ==
    (last.stage = "laps" /\ last.status = 200 /\ last.payload = <<>>) =>
        /\ last.outcome # "raise"
        /\ message.kind # "error"

\* C7 as claimed: a roster whose unique driver numbers and unique acronyms
\* differ in number, either way, fails the resolution: no mapping is
\* returned and no per-driver fetch is made.
C7_RosterCountMismatchFails ==
    [][(/\ Returned("roster")
        /\ Len(RosterNumbers(last.data)) # Len(RosterAcronyms(last.data)))
       => (pc' = "idle" /\ message'.kind = "error")]_vars

\* C8 as claimed: a driver with laps whose stints fetch answers 200 with no
\* stint does not abort the assembly.
C8_NoStintsStillCompletes ==
    (last.stage = "stints" /\ last.status = 200 /\ last.payload = <<>>) =>
        /\ last.outcome # "raise"
        /\ message.kind # "error"

\* C9: a fetch of the construction that ends in an error leaves no Session,
\* not even the partial one, and the dashboard ends the load with
\* session_object and current_session_key None and the failure shown as a
\* message; the exception does not leave the handler.
C9_FailedLoadLeavesNoSession ==
    (last.outcome = "raise" /\ last.stage \in ConstructorStages) =>
        /\ self = None
        /\ session_object = None
        /\ current_session_key = None
        /\ message.kind = "error"
        /\ message.exc = last.exc
        /\ pc = "idle"

\* C9's case: the stints fetch of the second driver fails, after the first
\* driver's table was assembled.
C9_Witness ==
    /\ last.outcome = "raise"
    /\ last.stage = "stints"
    /\ Len(matching) = 2
    /\ Param(last.url[2], "driver_number") = matching[2][1]
    /\ session_object = None

DerivedColumns == {"actual_lap_time", "Compound", "Tire_Age", "Stint_Number"}

WellFormed(lap_data_dict) ==
    /\ \A i, j \in 1..Len(lap_data_dict) :
          lap_data_dict[i][1] = lap_data_dict[j][1] => i = j
    /\ \A i \in 1..Len(lap_data_dict) :
          \A k \in 1..Len(lap_data_dict[i][2]) :
             DerivedColumns \subseteq DOMAIN lap_data_dict[i][2][k]

\* C10: in an assembled Session no driver number has two entries and every
\* lap row has the columns actual_lap_time, Compound, Tire Age and Stint
\* Number; right after the assembly every driver of it is in the roster.
C10_AssembledTablesWellFormed ==
    /\ session_object # None =>
          WellFormed(Val(session_object).session_lap_data_dict)
    /\ message.kind = "success" =>
          /\ session_object # None
          /\ \A i \in 1..Len(Val(session_object).session_lap_data_dict) :
                \E m \in 1..Len(matching) :
                   matching[m][1] = Val(session_object).session_lap_data_dict[i][1]

\* C10's case: a Session of two drivers, one of them with a lap no stint
\* covers (null tire columns).
C10_Witness ==
    /\ message.kind = "success"
    /\ session_object # None
    /\ Len(Val(session_object).session_lap_data_dict) = 2
    /\ \E i \in 1..2 :
          \E k \in 1..Len(Val(session_object).session_lap_data_dict[i][2]) :
             IsNone(Val(session_object).session_lap_data_dict[i][2][k].Compound)

SumOfSectors(row) ==
    IF \/ IsNone(row.duration_sector_1)
       \/ IsNone(row.duration_sector_2)
       \/ IsNone(row.duration_sector_3)
    THEN None
    ELSE Some(Val(row.duration_sector_1) + Val(row.duration_sector_2)
              + Val(row.duration_sector_3))

TablesOf(s) == {s.session_lap_data_dict[i][2] : i \in 1..Len(s.session_lap_data_dict)}

TimedRows(df) == {i \in 1..Len(df) : ~IsNone(df[i].actual_lap_time)}

\* C11: every assembled lap has actual_lap_time equal to the sum of its three
\* sector durations (null when one is null), whatever its lap_duration; the
\* fastest lap of a driver is the least actual_lap_time of that driver, the
\* position order is ascending in actual_lap_time, and the duration of a
\* telemetry window is the actual_lap_time of the lap row it was read from.
C11_LapTimeIsSumOfSectors ==
    LET s == telemetry.session
        r == telemetry.last
        fl == Val(s.session_fastest_laps)
    IN /\ \A df \in TablesOf(s) : \A i \in 1..Len(df) :
             df[i].actual_lap_time = SumOfSectors(df[i])
       /\ \A k \in 1..Len(fl) :
             LET df == DictGet(s.session_lap_data_dict, fl[k].driver_number)
             IN /\ fl[k].actual_lap_time = SumOfSectors(fl[k])
                /\ ~IsNone(fl[k].actual_lap_time)
                /\ \A i \in TimedRows(df) :
                      Val(fl[k].actual_lap_time) <= Val(SumOfSectors(df[i]))
       /\ \A df \in TablesOf(s) :
             TimedRows(df) # {} =>
                 \E k \in 1..Len(fl) : fl[k].driver_number = df[1].driver_number
       /\ (r.op = "get_session_position_order" /\ r.result # None) =>
             \A i, j \in 1..Len(Val(r.result)) :
                 i < j => Val(SumOfSectors(Val(r.result)[i]))
                            <= Val(SumOfSectors(Val(r.result)[j]))
       /\ (r.outcome # "none" /\ ~IsNone(r.window.start)) =>
             \E df \in TablesOf(s) : \E i \in 1..Len(df) :
                 /\ df[i].driver_number = r.driver_number
                 /\ r.window.start = df[i].date_start
                 /\ r.window.duration = SumOfSectors(df[i])
                 /\ r.window.end =
                       IF IsNone(SumOfSectors(df[i])) THEN None
                       ELSE Some(Val(df[i].date_start) + Val(SumOfSectors(df[i])))

\* C11's case: the position order of two drivers that ordering by
\* lap_duration would reverse.
C11_Witness ==
    LET r == telemetry.last
    IN /\ r.op = "get_session_position_order"
       /\ r.outcome = "return"
       /\ r.result # None
       /\ Len(Val(r.result)) = 2
       /\ Val(Val(r.result)[1].actual_lap_time) < Val(Val(r.result)[2].actual_lap_time)
       /\ Val(Val(r.result)[1].lap_duration) > Val(Val(r.result)[2].lap_duration)

WindowOps == {"get_lap_telemetry_data", "get_track_position_for_lap"}

\* The samples the remote holds for the driver of a call.
Fetched(r) ==
    IF r.op = "get_lap_telemetry_data" THEN CarSamples(r.driver_number)
    ELSE LocationSamples(r.driver_number)

DatesOf(df) == [i \in 1..Len(df) |-> df[i].date]

\* C18: with S and D the start and duration resolved for the lap,
\* get_lap_telemetry_data and get_track_position_for_lap return exactly the
\* fetched samples with S <= t <= S + D, both ends included and in the
\* fetched order, each with seconds_from_lap_start = t - S.
C18_SamplesOfTheClosedWindow ==
    LET r == telemetry.last
    IN (/\ r.op \in WindowOps
        /\ r.outcome = "return"
        /\ r.result # None
        /\ ~IsNone(r.window.start)
        /\ ~IsNone(r.window.duration)) =>
          LET S == Val(r.window.start)
              D == Val(r.window.duration)
              res == Val(r.result)
              all == Fetched(r)
          IN /\ DatesOf(res) =
                   SelectSeq(DatesOf(all), LAMBDA t : S <= t /\ t <= S + D)
             /\ \A k \in 1..Len(res) :
                   /\ \E i \in 1..Len(all) :
                         \A f \in DOMAIN all[i] : res[k][f] = all[i][f]
                   /\ res[k].seconds_from_lap_start = Some(res[k].date - S)
                   /\ Val(res[k].seconds_from_lap_start) \in 0..D

\* C18's case: a window whose first sample lies on S and whose last lies on
\* S + D, with fetched samples before and after it left out.
C18_Witness ==
    LET r == telemetry.last
    IN /\ r.op \in WindowOps
       /\ r.outcome = "return"
       /\ r.result # None
       /\ ~IsNone(r.window.end)
       /\ Len(Val(r.result)) >= 2
       /\ Val(r.result)[1].date = Val(r.window.start)
       /\ Val(r.result)[Len(Val(r.result))].date = Val(r.window.end)
       /\ \E i, j \in 1..Len(Fetched(r)) :
             /\ Fetched(r)[i].date < Val(r.window.start)
             /\ Fetched(r)[j].date > Val(r.window.end)

ExtractionOps ==
    {"get_lap_telemetry_data", "get_track_position_for_lap",
     "match_track_position_and_gear"}

\* C19 as claimed: with the fastest flag not set, a lap number that is not in
\* the driver's lap table makes every telemetry extraction warn and return
\* nothing, without an exception and without a request.
C19_AbsentLapIsSoftFailure ==
    LET r == telemetry.last
    IN (/\ r.op \in ExtractionOps
        /\ ~r.fastest_lap
        /\ r.lap_number \notin
              LapNumbersOf(DictGet(telemetry.session.session_lap_data_dict,
                                   r.driver_number))) =>
          /\ r.outcome = "return"
          /\ r.result = None
          /\ r.warned
          /\ r.gets = <<>>

\* The session record of a 200 response that carries one.
HasRecord(resp) == resp.status = 200 /\ resp.payload # <<>>

SegmentOps == {"get_qualifying_results", "match_laps_to_qualifying_session"}

\* C12: in a session starting at T0 that is not rejected, every lap keeps its
\* row and every lap with a start timestamp gets exactly one of Q1, Q2, Q3:
\* Q1 before T0 + 25 min, Q2 in [T0 + 25 min, T0 + 48 min), Q3 from
\* T0 + 48 min on; a lap with no start timestamp gets none.
C12_LapsFallInOneWindow ==
    LET r == quali.result
    IN (r.op \in SegmentOps /\ r.outcome = "return") =>
          LET qd == Val(r.qualifying_data)
              T0 == quali.resp2.payload[1].date_start
          IN /\ Len(qd) = Len(quali.lap_df)
             /\ \A i \in 1..Len(qd) :
                   /\ \A f \in DOMAIN quali.lap_df[i] : qd[i][f] = quali.lap_df[i][f]
                   /\ IF IsNone(qd[i].date_start) THEN qd[i].Qualifying = None
                      ELSE LET t == Val(qd[i].date_start)
                           IN qd[i].Qualifying =
                                 IF t < T0 + 25 THEN Some("Q1")
                                 ELSE IF t < T0 + 48 THEN Some("Q2")
                                 ELSE Some("Q3")

\* C12's case: a lap starting exactly at T0 + 25 min put in Q2 and one
\* starting exactly at T0 + 48 min put in Q3.
C12_Witness ==
    LET r == quali.result
    IN /\ r.op = "match_laps_to_qualifying_session"
       /\ r.outcome = "return"
       /\ Len(Val(r.qualifying_data)) = 2
       /\ Val(r.qualifying_data)[1].date_start = Some(SessionStart + 25)
       /\ Val(r.qualifying_data)[1].Qualifying = Some("Q2")
       /\ Val(r.qualifying_data)[2].date_start = Some(SessionStart + 48)
       /\ Val(r.qualifying_data)[2].Qualifying = Some("Q3")

\* The segmenter got to the duration test: its metadata request was made
\* and answered with a session record.
DurationTested ==
    /\ HasRecord(quali.resp2)
    /\ \/ quali.result.op = "match_laps_to_qualifying_session"
       \/ /\ quali.result.op = "get_qualifying_results"
          /\ quali.result.gets = 2

SessionMinutes == quali.resp2.payload[1].date_end - quali.resp2.payload[1].date_start

\* C13: the segmentation is rejected with the red-flag error, no lap being
\* assigned, exactly when session end minus session start is more than 70
\* minutes; at 70 minutes or less the laps are segmented.
C13_RedFlagAboveSeventyMinutes ==
    DurationTested =>
        IF SessionMinutes > 70
        THEN /\ quali.result.outcome = "raise"
             /\ quali.result.exc = Some(RedFlagError)
             /\ quali.result.qualifying_data = None
             /\ quali.result.qualifying_sessions = None
        ELSE /\ quali.result.outcome = "return"
             /\ quali.result.qualifying_data # None

\* C13's case: a session of 71 minutes rejected.
C13_Witness ==
    /\ DurationTested
    /\ SessionMinutes = 71
    /\ quali.result.exc = Some(RedFlagError)
    /\ quali.lap_df # <<>>

\* C14: get_qualifying_results on a session whose type is not "Qualifying"
\* fails with the invalid-session-type error after its first request: the
\* metadata request is not made and no lap is segmented; it returns tables
\* only for the type "Qualifying".
C14_OnlyQualifyingSessions ==
    LET r == quali.result
    IN r.op = "get_qualifying_results" =>
          /\ (HasRecord(quali.resp1)
              /\ quali.resp1.payload[1].session_type # "Qualifying") =>
                 /\ r.outcome = "raise"
                 /\ r.exc = Some(InvalidSessionType)
                 /\ r.gets = 1
                 /\ r.qualifying_data = None
                 /\ r.qualifying_sessions = None
                 /\ r.qualifying_order = None
          /\ r.outcome = "return" =>
                 /\ HasRecord(quali.resp1)
                 /\ quali.resp1.payload[1].session_type = "Qualifying"

\* C14's case: a Race session whose metadata would have been accepted.
C14_Witness ==
    /\ quali.result.op = "get_qualifying_results"
    /\ quali.result.exc = Some(InvalidSessionType)
    /\ HasRecord(quali.resp2)
    /\ SessionMinutes <= 70
    /\ quali.resp1.payload[1].session_type = "Race"

SegmentNames == <<"Q1", "Q2", "Q3">>

\* Order of nullable values in which a null comes after every value.
Before(a, b) == ~IsNone(a) /\ (IsNone(b) \/ Val(a) < Val(b))

NotAfter(a, b) == a = b \/ Before(a, b)

\* Row a ranks no lower than row b: faster, or as fast and started no later.
RanksNoLower(a, b) ==
    \/ Before(a.actual_lap_time, b.actual_lap_time)
    \/ /\ a.actual_lap_time = b.actual_lap_time
       /\ NotAfter(a.date_start, b.date_start)

Returned_Results ==
    quali.result.op = "get_qualifying_results" /\ quali.result.outcome = "return"

\* C15: in each of the three result tables no row is a pit-out lap, every
\* row is a lap of that window, a driver has at most one row and has one if
\* a lap of theirs in the window is not a pit-out lap; the row kept is the
\* driver's least actual_lap_time among those laps, the earlier start among
\* equal times; rows ascend in lap time, the earlier start first on ties.
C15_ResultTablesKeepFastestLap ==
    Returned_Results =>
        LET qd == Val(quali.result.qualifying_data)
        IN \A k \in 1..3 :
              LET t == Val(quali.result.qualifying_sessions)[k]
                  eligible == {i \in 1..Len(qd) :
                                  /\ qd[i].Qualifying = Some(SegmentNames[k])
                                  /\ ~qd[i].is_pit_out_lap}
              IN /\ \A i \in 1..Len(t) :
                       /\ ~t[i].is_pit_out_lap
                       /\ \E e \in eligible : qd[e] = t[i]
                       /\ \A e \in eligible :
                             qd[e].driver_number = t[i].driver_number
                             => RanksNoLower(t[i], qd[e])
                 /\ \A i, j \in 1..Len(t) :
                       /\ i # j => t[i].driver_number # t[j].driver_number
                       /\ i < j => RanksNoLower(t[i], t[j])
                 /\ \A e \in eligible :
                       \E i \in 1..Len(t) : t[i].driver_number = qd[e].driver_number

\* C15's case: a car with two laps of the same time in one window, of which
\* the table keeps the one that started earlier.
C15_Witness ==
    /\ Returned_Results
    /\ \E k \in 1..3 :
          LET t == Val(quali.result.qualifying_sessions)[k]
              qd == Val(quali.result.qualifying_data)
          IN /\ Len(t) = 1
             /\ \E i \in 1..Len(qd) :
                   /\ qd[i] # t[1]
                   /\ qd[i].Qualifying = t[1].Qualifying
                   /\ qd[i].driver_number = t[1].driver_number
                   /\ ~qd[i].is_pit_out_lap
                   /\ qd[i].actual_lap_time = t[1].actual_lap_time
                   /\ ~IsNone(t[1].actual_lap_time)
                   /\ Before(t[1].date_start, qd[i].date_start)

\* The last rows of a table, five of them at most.
LastFive(t) ==
    LET n == IF Len(t) < 5 THEN Len(t) ELSE 5
    IN [i \in 1..n |-> t[Len(t) - n + i]]

\* C16: the elimination order is the rows of the Q3 table, then the five
\* slowest rows of the Q2 table, then the five slowest rows of the Q1 table,
\* each group in ascending lap time.
C16_EliminationOrder ==
    Returned_Results =>
        LET qs == Val(quali.result.qualifying_sessions)
            order == Val(quali.result.qualifying_order)
            groups == <<qs[3], LastFive(qs[2]), LastFive(qs[1])>>
        IN /\ order = groups[1] \o groups[2] \o groups[3]
           /\ \A g \in 1..3 : \A i, j \in 1..Len(groups[g]) :
                 i < j => NotAfter(groups[g][i].actual_lap_time,
                                   groups[g][j].actual_lap_time)

\* C16's case: the full grid, from whose Q2 and Q1 tables only the last five
\* rows are taken.
C16_Witness ==
    /\ Returned_Results
    /\ Len(Val(quali.result.qualifying_sessions)[1]) = 20
    /\ Len(Val(quali.result.qualifying_sessions)[2]) = 15
    /\ Len(Val(quali.result.qualifying_sessions)[3]) = 10
    /\ Len(Val(quali.result.qualifying_order)) = 20
    /\ Val(quali.result.qualifying_order)[11].driver_number = 11
    /\ Val(quali.result.qualifying_order)[16].driver_number = 16

DriversOf(df) == {df[i].driver_number : i \in 1..Len(df)}

\* C17 as claimed: for a qualifying of 20 drivers the elimination order has
\* exactly 20 rows, 10 of the Q3 table, then 5 of the Q2 and 5 of the Q1
\* table, and no driver twice, however the laps fall in the windows.
C17_TwentyRowsNoDuplicates ==
    (Returned_Results /\ Cardinality(DriversOf(quali.lap_df)) = 20) =>
        LET qs == Val(quali.result.qualifying_sessions)
            order == Val(quali.result.qualifying_order)
        IN /\ Len(order) = 20
           /\ Len(qs[3]) = 10
           /\ \A i \in 1..Len(order) :
                 /\ i <= 10 => order[i].Qualifying = Some("Q3")
                 /\ (10 < i /\ i <= 15) => order[i].Qualifying = Some("Q2")
                 /\ 15 < i => order[i].Qualifying = Some("Q1")
           /\ \A i, j \in 1..Len(order) :
                 i # j => order[i].driver_number # order[j].driver_number

\* C20 as claimed for the retry loops of data_processing.py: the routine
\* goes on to ask again only when the response it holds has status 429, and
\* a response with another status than 200 and 429 ends the fetch with an
\* error outcome, also when it arrives after a 429.
C20_OnlyRateLimitIsRetried ==
    /\ fetch.pc = "sleep" => LastStatus(fetch) = 429
    /\ (fetch.pc = "done" /\ LastStatus(fetch) \in OtherStatuses)
          => fetch.outcome \in {"return_none", "raise"}
    /\ (fetch.statuses # <<>> /\ LastStatus(fetch) \in OtherStatuses)
          => fetch.pc \in {"check", "done"}

\* The rows of the fastest-lap table that belong to a driver.
FastestRowsOf(s, driver_number) ==
    LET fl == Val(s.session_fastest_laps)
    IN {i \in 1..Len(fl) : fl[i].driver_number = driver_number}

\* C23 as claimed: with fastest_lap set, get_lap_telemetry_data does not look
\* at lap_number: for a driver with a fastest lap it requests the car data
\* and cuts them to the window of that lap, whatever lap_number is, without
\* the warning of an absent lap.
C23_FastestFlagIgnoresLapNumber ==
    LET r == telemetry.last
        s == telemetry.session
    IN (/\ r.op = "get_lap_telemetry_data"
        /\ r.fastest_lap
        /\ FastestRowsOf(s, r.driver_number) # {}) =>
          LET fl == Val(s.session_fastest_laps)
              i == CHOOSE k \in FastestRowsOf(s, r.driver_number) : TRUE
          IN /\ ~r.warned
             /\ r.gets # <<>>
             /\ r.window.start = fl[i].date_start
             /\ r.window.duration = fl[i].actual_lap_time

\* C22 as claimed: with the fastest flag not set and a lap number that is in
\* the driver's lap table, get_lap_start_and_end_time returns the start and
\* the actual_lap_time of the row whose lap_number is the requested one, the
\* driver's last lap included.
C22_LapLookedUpByLapNumber ==
    LET r == telemetry.last
        df == DictGet(telemetry.session.session_lap_data_dict, r.driver_number)
    IN (/\ r.op = "get_lap_start_and_end_time"
        /\ ~r.fastest_lap
        /\ r.lap_number \in LapNumbersOf(df)) =>
          /\ r.outcome = "return"
          /\ \E i \in 1..Len(df) :
                /\ df[i].lap_number = r.lap_number
                /\ r.window.start = df[i].date_start
                /\ r.window.duration = df[i].actual_lap_time

\* C25: no public operation of a constructed Session changes its lap tables,
\* its fastest-lap table or its type, circuit and name, however often and in
\* whatever order the operations are called.
C25_OperationsLeaveSessionAsBuilt ==
    [][/\ telemetry'.session.session_lap_data_dict
             = telemetry.session.session_lap_data_dict
       /\ telemetry'.session.session_fastest_laps
             = telemetry.session.session_fastest_laps
       /\ telemetry'.session.session_type = telemetry.session.session_type
       /\ telemetry'.session.session_circuit = telemetry.session.session_circuit
       /\ telemetry'.session.session_name = telemetry.session.session_name]_vars

\* C25's case: a chart was drawn, so bar_color was assigned to the frame that
\* is plotted, and the tables of the Session do not have that column.
C25_Witness ==
    /\ telemetry.last.op = "compare_fastest_lap_characteristics"
    /\ telemetry.last.outcome = "return"
    /\ Len(Val(telemetry.last.result).bars) = Cardinality(DriverNumbers)
    /\ \A i \in 1..Len(telemetry.session.session_lap_data_dict) :
          \A k \in 1..Len(telemetry.session.session_lap_data_dict[i][2]) :
             "bar_color" \notin DOMAIN telemetry.session.session_lap_data_dict[i][2][k]

\* C24 as claimed: whenever the roster is resolved, the mapping of numbers to
\* acronyms is one-to-one and each of its pairs occurs together in a record
\* of the roster response.
C24_RosterPairsComeFromOneRecord ==
    [][(pc = "roster" /\ pc' = "laps") =>
          LET all_drivers == last.payload
          IN /\ \A i, j \in 1..Len(matching') :
                   i # j => /\ matching'[i][1] # matching'[j][1]
                            /\ matching'[i][2] # matching'[j][2]
             /\ \A i \in 1..Len(matching') :
                   \E k \in 1..Len(all_drivers) :
                      /\ all_drivers[k].driver_number = matching'[i][1]
                      /\ all_drivers[k].name_acronym = matching'[i][2]]_vars

\* The handler of a pressed session button is about to run (dashboard 78-90):
\* the sessions of the weekend are there and the pressed button exists.
HandlerRuns ==
    /\ Returned("sessions")
    /\ clicked # None
    /\ Val(clicked) <= Len(response.payload)

\* The session key the handler computes at line 87.
HandlerKey ==
    SessionKeyOf(response.payload, response.payload[Val(clicked)].session_name)

\* C26: session_object is None exactly when current_session_key is None, and
\* a stored Session is the one built for current_session_key; the handler of
\* a pressed button whose session key is current_session_key constructs no
\* Session and leaves both as they are, and for any other key (always so
\* after a failed load, which leaves the key None) it starts Session(key).
C26_SessionObjectMatchesCurrentKey ==
    /\ []((session_object = None) <=> (current_session_key = None))
    /\ [](session_object # None =>
             Val(session_object).session_key = Val(current_session_key))
    /\ [](message.kind = "error" => current_session_key = None)
    /\ [][HandlerRuns =>
             IF current_session_key = Some(HandlerKey)
             THEN /\ self' = None
                  /\ pc' = "idle"
                  /\ UNCHANGED <<session_object, current_session_key>>
             ELSE /\ self' = Some(NewSession(HandlerKey))
                  /\ pc' = "info"]_vars

\* C26's case: a Session is loaded and the button of that very session was
\* pressed again; the handler is about to run.
C26_Witness ==
    /\ HandlerRuns
    /\ session_object # None
    /\ current_session_key = Some(HandlerKey)
    /\ Val(session_object).session_key = HandlerKey

==============================================================================
